---- MODULE Spec2Model ----
(***************************************************************************)
(* Model of the hc component-expansion engine (src/hc.go).                 *)
(*                                                                         *)
(* Markup is a sequence of raw tokens; one raw token stands for the bytes  *)
(* of one tag or of one run of text, so a byte offset of the source is a   *)
(* count of raw tokens here.  A render call is a stack machine: one frame  *)
(* per active renderMarkupStream / renderComponent invocation.             *)
(***************************************************************************)
EXTENDS Integers, Sequences, FiniteSets, TLC

(***************************************************************************)
(* Program constants and model bounds                                      *)
(***************************************************************************)
maxComponentPasses == 16

\* deepest child-content nesting among the generated pages
MaxNest == 9
\* number of render calls one engine serves in a behaviour
MaxRenders == 2

(***************************************************************************)
(* Markup: raw tokens                                                      *)
(***************************************************************************)
Txt(s)      == [k |-> "text",  n |-> s, a |-> <<>>]
Open(n)     == [k |-> "open",  n |-> n, a |-> <<>>]
OpenA(n, a) == [k |-> "open",  n |-> n, a |-> a]
Close(n)    == [k |-> "close", n |-> n, a |-> <<>>]
Self(n)     == [k |-> "self",  n |-> n, a |-> <<>>]
SelfA(n, a) == [k |-> "self",  n |-> n, a |-> a]
Attr(n, v)  == [n |-> n, v |-> v]
NoTok       == [k |-> "none",  n |-> "", a |-> <<>>]

\* a Go map with no entries
EmptyMap == [x \in {} |-> x]

\* names whose first rune is an upper-case letter
UpperNames ==
    {"P", "L", "S", "M", "N", "T", "E", "X", "Z", "K", "W", "V", "Ab", "AB",
     "Cd", "CD", "Ef", "EF"}

\* the components of a chain: the template of each but the last emits the
\* next one
ChainNames ==
    <<"C1", "C2", "C3", "C4", "C5", "C6", "C7", "C8", "C9", "C10", "C11", "C12",
      "C13", "C14", "C15", "C16", "C17">>

ChainLower ==
    <<"c1", "c2", "c3", "c4", "c5", "c6", "c7", "c8", "c9", "c10", "c11", "c12",
      "c13", "c14", "c15", "c16", "c17">>

ChainLen == Len(ChainNames)

isComponentName(name) ==
    name # "" /\ (name \in UpperNames \/ \E i \in 1..ChainLen : name = ChainNames[i])

\* xml.HTMLAutoClose, restricted to the void element the pages use
HTMLAutoClose == {"br"}

LowerTable ==
    [P |-> "p", L |-> "l", S |-> "s", M |-> "m", N |-> "n", T |-> "t",
     E |-> "e", X |-> "x", Z |-> "z", K |-> "k", W |-> "w", V |-> "v",
     Ab |-> "ab", AB |-> "ab", Msg |-> "msg", MSG |-> "msg", Extra |-> "extra",
     Id |-> "id", EN |-> "en", Cd |-> "cd", CD |-> "cd", Ef |-> "ef", EF |-> "ef"]

\* strings.ToLower on the names and locales the model uses
ToLower(s) ==
    IF s \in DOMAIN LowerTable THEN LowerTable[s]
    ELSE IF \E i \in 1..ChainLen : s = ChainNames[i]
    THEN ChainLower[CHOOSE i \in 1..ChainLen : s = ChainNames[i]]
    ELSE s

\* the attribute expressions and results with white space around them, and
\* the locale " fr", without it
Trimmed ==
    (" " :> "") @@ ("  " :> "") @@ (" true" :> "true") @@ ("true " :> "true")
        @@ ("false " :> "false") @@ (" x " :> "x") @@ (" fr" :> "fr")

\* strings.TrimSpace on the strings the model uses: besides those of Trimmed
\* the only ones with white space around them are the cache keys that start
\* with the locale " fr"
TrimSpace(s) ==
    LET names == {LowerTable[n] : n \in DOMAIN LowerTable}
    IN IF s \in DOMAIN Trimmed THEN Trimmed[s]
       ELSE IF \E n \in names : s = " fr:" \o n
       THEN "fr:" \o (CHOOSE n \in names : s = " fr:" \o n)
       ELSE s

(***************************************************************************)
(* The token stream of encoding/xml's Decoder with Strict = false and      *)
(* AutoClose = HTMLAutoClose, as renderMarkupStream drives it.             *)
(***************************************************************************)
NewDecoder ==
    [pos |-> 0, stk |-> <<>>, needClose |-> FALSE, toClose |-> "", next |-> NoTok]

InputOffset(d) == d.pos

rawToken(input, d) ==
    IF d.needClose
    THEN [t |-> [k |-> "end", n |-> d.toClose, a |-> <<>>], err |-> "",
          d |-> [d EXCEPT !.needClose = FALSE]]
    ELSE IF d.pos >= Len(input)
    THEN [t |-> NoTok, err |-> "EOF", d |-> d]
    ELSE LET b  == input[d.pos + 1]
             d1 == [d EXCEPT !.pos = @ + 1]
         IN CASE b.k = "open"  -> [t |-> [k |-> "start", n |-> b.n, a |-> b.a],
                                   err |-> "", d |-> d1]
              [] b.k = "self"  -> [t |-> [k |-> "start", n |-> b.n, a |-> b.a],
                                   err |-> "",
                                   d |-> [d1 EXCEPT !.needClose = TRUE, !.toClose = b.n]]
              [] b.k = "close" -> [t |-> [k |-> "end", n |-> b.n, a |-> <<>>],
                                   err |-> "", d |-> d1]
              [] OTHER         -> [t |-> [k |-> "chardata", n |-> b.n, a |-> <<>>],
                                   err |-> "", d |-> d1]

autoClose(t, d) ==
    /\ d.stk # <<>>
    /\ d.stk[Len(d.stk)] \in HTMLAutoClose
    /\ ~(t.k = "end" /\ t.n = d.stk[Len(d.stk)])

popElement(t, d) ==
    IF d.stk = <<>>
    THEN [t |-> NoTok, err |-> "unexpected end element", d |-> d]
    ELSE LET s  == d.stk[Len(d.stk)]
             d1 == [d EXCEPT !.stk = SubSeq(@, 1, Len(@) - 1)]
         IN IF s # t.n
            THEN [t |-> [t EXCEPT !.n = s], err |-> "",
                  d |-> [d1 EXCEPT !.needClose = TRUE, !.toClose = t.n]]
            ELSE [t |-> t, err |-> "", d |-> d1]

\* Decoder.Token: the buffered or the next raw token, the implicit end of a
\* void element in front of it, and the element stack kept
Token(input, d) ==
    LET Push(t, d2) ==
            CASE t.k = "start" ->
                   [t |-> t, err |-> "", d |-> [d2 EXCEPT !.stk = Append(@, t.n)]]
              [] t.k = "end"   -> popElement(t, d2)
              [] OTHER         -> [t |-> t, err |-> "", d |-> d2]
        Close1(r, ac) ==
            Push(IF ac THEN [k |-> "end", n |-> r.d.stk[Len(r.d.stk)], a |-> <<>>]
                       ELSE r.t,
                 IF ac THEN [r.d EXCEPT !.next = r.t] ELSE r.d)
        Got(r) ==
            IF r.err # ""
            THEN [t |-> NoTok,
                  err |-> IF r.d.stk # <<>> THEN "unexpected EOF" ELSE "EOF",
                  d |-> r.d]
            ELSE Close1(r, autoClose(r.t, r.d))
    IN Got(IF d.next.k # "none"
           THEN [t |-> d.next, err |-> "", d |-> [d EXCEPT !.next = NoTok]]
           ELSE rawToken(input, d))

(***************************************************************************)
(* Component boundary resolver: the scanning loops of renderMarkupStream   *)
(***************************************************************************)
RECURSIVE ScanInner(_, _, _)
\* the inner loop: read tokens until depthCount returns to zero
ScanInner(input, d, depthCount) ==
    LET Count(r, dc) ==
            IF dc = 0 THEN [err |-> "", d |-> r.d] ELSE ScanInner(input, r.d, dc)
        Got(r) ==
            IF r.err # ""
            THEN [err |-> r.err, d |-> r.d]
            ELSE Count(r, CASE r.t.k = "start" -> depthCount + 1
                            [] r.t.k = "end"   -> depthCount - 1
                            [] OTHER           -> depthCount)
    IN Got(Token(input, d))

NoSpan(kind, err, d) ==
    [kind |-> kind, err |-> err, elem |-> NoTok, start |-> 0, end |-> 0, d |-> d]

RECURSIVE FindSpan(_, _)
\* the outer loop up to the point where a component span is known:
\* "eof" (no further component), "err", or "span" with elem and [start, end)
FindSpan(input, d) ==
    LET Matched(elem, start, end, m) ==
            IF m.err = "EOF" THEN NoSpan("err", "unclosed component tag", m.d)
            ELSE IF m.err # "" THEN NoSpan("err", m.err, m.d)
            ELSE IF start < 0 \/ end > Len(input) \/ start >= end
            THEN NoSpan("err", "invalid offsets", m.d)
            ELSE [kind |-> "span", err |-> "", elem |-> elem,
                  start |-> start, end |-> end, d |-> m.d]
        Inner(elem, startOffset, m) == Matched(elem, startOffset, InputOffset(m.d), m)
        Got(startOffset, r) ==
            IF r.err = "EOF" THEN NoSpan("eof", "", r.d)
            ELSE IF r.err # "" THEN NoSpan("err", r.err, r.d)
            ELSE IF r.t.k # "start" \/ ~isComponentName(r.t.n) THEN FindSpan(input, r.d)
            ELSE Inner(r.t, startOffset, ScanInner(input, r.d, 1))
    IN Got(InputOffset(d), Token(input, d))

\* input[lo:hi] of the source: the raw tokens lo+1 .. hi
Slice(input, lo, hi) == SubSeq(input, lo + 1, hi)

HasBracket(tok) == tok.k \in {"open", "close", "self"}

\* attribute values that hold a '>': the first one of a tag has the '>' that
\* bytes.IndexByte(raw, '>') finds
BracketValues == {">", "/>"}

\* the bytes of a tag behind the '>' of its attribute value
TagTail == Txt("'>")

\* splitComponentBody: children, selfClosing, err ("panic" when the slice
\* bounds of raw[openEnd+1 : closeIdx] are out of range).  The first '>' of
\* raw ends the first tag, unless an attribute value of that tag holds one:
\* then the byte before it decides selfClosing and the rest of the tag is
\* the head of the children.
splitComponentBody(raw, name) ==
    LET brackets == {i \in 1..Len(raw) : HasBracket(raw[i])}
        closes   == {i \in 1..Len(raw) : raw[i].k = "close" /\ raw[i].n = name}
        Cut(openTok, head) ==
            IF closes = {}
            THEN [children |-> <<>>, selfClosing |-> FALSE, err |-> "missing closing tag"]
            ELSE LET closeTok == CHOOSE i \in closes : \A j \in closes : j <= i
                 IN IF closeTok - 1 < openTok
                    THEN [children |-> <<>>, selfClosing |-> FALSE, err |-> "panic"]
                    ELSE [children |-> head \o Slice(raw, openTok, closeTok - 1),
                          selfClosing |-> FALSE, err |-> ""]
        Opened(openTok, inValue) ==
            IF inValue # {}
            THEN IF raw[openTok].a[CHOOSE i \in inValue : \A j \in inValue : i <= j].v = "/>"
                 THEN [children |-> <<>>, selfClosing |-> TRUE, err |-> ""]
                 ELSE Cut(openTok, <<TagTail>>)
            ELSE IF raw[openTok].k = "self"
            THEN [children |-> <<>>, selfClosing |-> TRUE, err |-> ""]
            ELSE Cut(openTok, <<>>)
        First(openTok) ==
            Opened(openTok, {i \in 1..Len(raw[openTok].a) :
                                raw[openTok].a[i].v \in BracketValues})
    IN IF brackets = {}
       THEN [children |-> <<>>, selfClosing |-> FALSE, err |-> "no closing bracket"]
       ELSE First(CHOOSE i \in brackets : \A j \in brackets : i <= j)

isSpaceByte(b) == b \in {" ", "\n", "\r", "\t"}

\* splitComponentBody on the bytes of raw (a sequence of one-character
\* strings): an index is the Go index, -1 is "not found"; err is "panic" when
\* the bounds of raw[openEnd+1 : closeIdx] are out of range
splitComponentBodyBytes(raw, name) ==
    LET IndexByte(b) ==
            IF \E i \in 1..Len(raw) : raw[i] = b
            THEN (CHOOSE i \in 1..Len(raw) :
                      raw[i] = b /\ \A j \in 1..(i - 1) : raw[j] # b) - 1
            ELSE -1
        LastIndex(sep) ==
            LET at == {i \in 0..(Len(raw) - Len(sep)) : SubSeq(raw, i + 1, i + Len(sep)) = sep}
            IN IF at = {} THEN -1 ELSE CHOOSE i \in at : \A j \in at : j <= i
        \* the loop from openEnd - 1 down to 0, entered at index i
        Slash[i \in -1..Len(raw)] ==
            IF i < 0 THEN FALSE
            ELSE IF raw[i + 1] = "/" THEN TRUE
            ELSE IF isSpaceByte(raw[i + 1]) THEN Slash[i - 1]
            ELSE FALSE
        Fails(err) == [children |-> <<>>, selfClosing |-> FALSE, err |-> err]
        Cut(openEnd, closeIdx) ==
            IF closeIdx = -1 THEN Fails("component " \o name \o " missing closing tag")
            ELSE IF openEnd + 1 > closeIdx THEN Fails("panic")
            ELSE [children |-> SubSeq(raw, openEnd + 2, closeIdx),
                  selfClosing |-> FALSE, err |-> ""]
        Opened(openEnd) ==
            IF openEnd = -1 THEN Fails("component " \o name \o " has no closing bracket")
            ELSE IF Slash[openEnd - 1]
            THEN [children |-> <<>>, selfClosing |-> TRUE, err |-> ""]
            ELSE Cut(openEnd, LastIndex(<<"<", "/">> \o <<name>>))
    IN Opened(IndexByte(">"))

(***************************************************************************)
(* Component files and the template engine (compile / execute)             *)
(***************************************************************************)
Children     == [k |-> "children", n |-> "", a |-> <<>>]
FailExec     == [k |-> "fail",     n |-> "", a |-> <<>>]
CallFn(f)    == [k |-> "call",     n |-> f,  a |-> <<>>]

Tpl(ok, body) == [ok |-> ok, body |-> body]

RECURSIVE Nest(_)
\* d components nested in one another's child content around a text
Nest(d) == IF d = 0 THEN <<Txt("x")>> ELSE <<Open("P")>> \o Nest(d - 1) \o <<Close("P")>>

\* the component folder: file name (base, extension) -> template source
Files ==
    ( <<"p", ".html">> :> Tpl(TRUE, <<Open("d"), Children, Close("d")>>) ) @@
    ( <<"l", ".html">> :> Tpl(TRUE, <<Txt("l")>>) ) @@
    ( <<"s", ".html">> :> Tpl(TRUE, <<Self("S")>>) ) @@
    ( <<"m", ".html">> :> Tpl(TRUE, <<Self("N")>>) ) @@
    ( <<"n", ".html">> :> Tpl(TRUE, <<Txt("n"), Self("M")>>) ) @@
    ( <<"t", ".html">> :> Tpl(TRUE, <<Open("P"), Self("T"), Close("P")>>) ) @@
    ( <<"e", ".html">> :> Tpl(TRUE, <<Txt("e"), FailExec>>) ) @@
    ( <<"x", ".html">> :> Tpl(FALSE, <<>>) ) @@
    ( <<"k", ".html">> :> Tpl(TRUE, <<CallFn("dyn")>>) ) @@
    ( <<"w", ".html">> :> Tpl(TRUE, <<Open("P"), Children, Close("P")>>) ) @@
    ( <<"v", ".html">> :> Tpl(TRUE, Nest(maxComponentPasses \div 2)) ) @@
    ( <<"ab", ".html">> :> Tpl(TRUE, <<Txt("ab")>>) ) @@
    ( <<"Cd", ".html">> :> Tpl(TRUE, <<Txt("Cd")>>) ) @@
    ( <<"cd", ".html">> :> Tpl(TRUE, <<Txt("cd")>>) ) @@
    ( <<"Ef", ".html">> :> Tpl(TRUE, <<Txt("Ef")>>) ) @@
    [f \in {<<ChainLower[i], ".html">> : i \in 1..ChainLen} |->
        LET i == CHOOSE j \in 1..ChainLen : ChainLower[j] = f[1]
        IN Tpl(TRUE, IF i < ChainLen THEN <<Txt("c"), Self(ChainNames[i + 1])>>
                     ELSE <<Txt("c")>>)]

\* a dash in front of every upper-case letter but the first, then lower case
toKebabCase(name) ==
    CASE name = "AB" -> "a-b"
      [] name = "CD" -> "c-d"
      [] name = "EF" -> "e-f"
      [] OTHER       -> ToLower(name)

Exts == <<".gohtml", ".tmpl", ".html">>

\* basenames {name, lower, kebab} x exts, without duplicates, in order
componentFileCandidates(name) ==
    LET basenames == <<name, ToLower(name), toKebabCase(name)>>
        all == [i \in 1..9 |-> <<basenames[((i - 1) \div 3) + 1], Exts[((i - 1) % 3) + 1]>>]
        keep == {i \in 1..9 : all[i][1] # "" /\ \A j \in 1..(i - 1) : all[j] # all[i]}
        F[i \in 0..9] ==
            IF i = 0 THEN <<>>
            ELSE IF i \in keep THEN Append(F[i - 1], all[i]) ELSE F[i - 1]
    IN F[9]

readComponentFile(name) ==
    LET cands == componentFileCandidates(name)
        found == {i \in 1..Len(cands) : cands[i] \in DOMAIN Files}
    IN IF found = {}
       THEN [content |-> Tpl(FALSE, <<>>), source |-> <<"", "">>, err |-> "not found"]
       ELSE LET i == CHOOSE i \in found : \A j \in found : i <= j
            IN [content |-> Files[cands[i]], source |-> cands[i], err |-> ""]

\* template.New(name).Funcs(funcs).Parse(content): a syntax error, or a call of
\* a function that funcs does not define, is a parse error
ParseTemplate(content, funcs) ==
    content.ok /\ \A i \in 1..Len(content.body) :
        content.body[i].k = "call" => content.body[i].n \in DOMAIN funcs

RECURSIVE ExecBody(_, _, _, _)
\* a call node runs the function the template was compiled with and inserts
\* its result
ExecBody(body, funcs, i, children) ==
    IF i > Len(body) THEN <<>>
    ELSE (CASE body[i].k = "children" -> children
            [] body[i].k = "call"     -> <<Txt(funcs[body[i].n])>>
            [] OTHER                  -> <<body[i]>>)
         \o ExecBody(body, funcs, i + 1, children)

\* tpl.Execute(&buf, payload)
Execute(tpl, payload) ==
    IF \E i \in 1..Len(tpl.body) : tpl.body[i].k = "fail"
    THEN [out |-> <<>>, err |-> "render component"]
    ELSE [out |-> ExecBody(tpl.body, tpl.funcs, 1, payload.Children), err |-> ""]

\* the functions an execution of tpl runs
CalledBy(tpl) ==
    {tpl.funcs[tpl.body[i].n] : i \in {j \in 1..Len(tpl.body) : tpl.body[j].k = "call"}}


(***************************************************************************)
(* Root documents                                                          *)
(***************************************************************************)
StaticPages ==
    [empty     |-> <<>>,
     plain     |-> <<Txt("x"), Open("d"), Txt("y"), Close("d")>>,
     tmpl      |-> <<Txt("x"), Txt("{{v}}")>>,
     badtmpl   |-> <<Txt("{{bad")>>,
     unclosed  |-> <<Open("d"), Txt("x")>>,
     stray     |-> <<Txt("x"), Close("d")>>,
     void      |-> <<Txt("x"), Open("br"), Txt("y")>>,
     voidend   |-> <<Txt("x"), Open("br")>>,
     leaf      |-> <<Txt("x"), SelfA("L", <<Attr("Msg", "lit")>>), Txt("y")>>,
     two       |-> <<Self("L"), Txt("x"), Self("l"), Self("L")>>,
     wrap      |-> <<Open("W"), Txt("x"), Self("L"), Close("W"), Txt("y")>>,
     self      |-> <<Txt("x"), Self("S"), Txt("y")>>,
     mutual    |-> <<Self("M")>>,
     tchild    |-> <<Self("T")>>,
     deepest   |-> <<Self("V")>>,
     execfail  |-> <<Txt("x"), Self("L"), Self("E"), Txt("y")>>,
     failfirst |-> <<Txt("x"), Self("E"), Txt("y"), Self("L")>>,
     compfail  |-> <<Txt("x"), Self("X")>>,
     notfound  |-> <<Txt("x"), Self("Z"), Txt("y")>>,
     childfail |-> <<Txt("x"), Open("P"), Self("E"), Close("P"), Txt("y")>>,
     badattr   |-> <<Txt("x"), SelfA("L", <<Attr("a", "lit"), Attr("b", "{{bad")>>)>>,
     dynfn     |-> <<Self("K"), Txt("x"), Self("K")>>,
     opencomp  |-> <<Txt("x"), Open("P"), Txt("y")>>,
     voidself  |-> <<Txt("x"), Open("br"), Self("L")>>,
     voidopen  |-> <<Txt("x"), Open("br"), Open("P"), Txt("y"), Close("P")>>]

\* documents about function sets, cache keys and attribute policies
MorePages ==
    [case     |-> <<Self("Ab"), Txt("x"), Self("AB")>>,
     dynattr  |-> <<SelfA("L", <<Attr("Msg", "{{dyn}}")>>), Self("K")>>,
     attrcase |-> <<Txt("x"), SelfA("L", <<Attr("MSG", "a"), Attr("Id", "b")>>)>>,
     attrmore |-> <<Txt("x"), SelfA("L", <<Attr("Msg", "a"), Attr("Extra", "b")>>)>>,
     attrless |-> <<Txt("x"), SelfA("L", <<Attr("Extra", "b")>>), Txt("y")>>,
     attrkids |-> <<OpenA("P", <<Attr("Id", "a")>>), SelfA("L", <<Attr("Msg", "a")>>),
                    Close("P")>>,
     tmplcomp |-> <<Txt("{{v}}"), Self("L"), Txt("y")>>,
     attrgt   |-> <<OpenA("P", <<Attr("a", ">")>>), Txt("x"), Self("L"), Close("P")>>,
     attrsl   |-> <<OpenA("P", <<Attr("a", "/>")>>), Txt("x"), Self("L"), Close("P")>>,
     selfgt   |-> <<Txt("x"), SelfA("L", <<Attr("a", ">")>>)>>,
     attrdup  |-> <<Txt("x"), SelfA("L", <<Attr("Msg", "a"), Attr("Id", "true"),
                                          Attr("MSG", "b")>>)>>,
     emptykid |-> <<Open("P"), Close("P"), Open("W"), Open("P"), Close("P"), Close("W")>>,
     exact    |-> <<Self("Cd"), Txt("x")>>,
     upper    |-> <<Self("CD"), Txt("x")>>,
     spell    |-> <<Self("Cd"), Txt("x"), Self("CD")>>,
     absent   |-> <<Txt("x"), Self("EF")>>,
     present  |-> <<Self("Ef"), Txt("x"), Self("EF")>>]

\* file identifiers: <<name, d>>; <<"nest", d>> is Nest(d), <<"missing", 0>> does not exist
RecursiveNames == {"self", "mutual", "tchild"}

DeepNames == RecursiveNames \cup {"deepest"}

FileIds == {<<n, 0>> : n \in (DOMAIN StaticPages) \ DeepNames} \cup {<<"missing", 0>>}

\* the documents whose expansion goes deep: recursive components, nested children
DeepFileIds == {<<n, 0>> : n \in DeepNames} \cup {<<"nest", d>> : d \in 1..MaxNest}

\* attribute expressions: empty and blank ones, true and false with and
\* without white space around them, other text, actions
AttrExprs ==
    <<"", " ", "  ", "true", "false", " true", "true ", "false ", "True", " x ", "x",
      "{{sp}}", "{{t}}", "{{t}} ", "{{dyn}}", "{{bad">>

\* the page <<"attrval", i>>: one component with the i-th expression as its
\* first attribute
AttrPage(i) ==
    <<Txt("x"), SelfA("L", <<Attr("Msg", AttrExprs[i]), Attr("Id", "true")>>)>>

\* the page <<"chain", k>>: a component whose expansion emits a further
\* component k - 1 times
Chain(k) == <<Txt("x"), Self(ChainNames[ChainLen - k + 1]), Txt("y")>>

\* h.readFile(filename)
readFile(file) ==
    IF file[1] = "nest" THEN [raw |-> Nest(file[2]), err |-> ""]
    ELSE IF file[1] = "attrval" THEN [raw |-> AttrPage(file[2]), err |-> ""]
    ELSE IF file[1] = "chain" THEN [raw |-> Chain(file[2]), err |-> ""]
    ELSE IF file[1] \in DOMAIN StaticPages THEN [raw |-> StaticPages[file[1]], err |-> ""]
    ELSE IF file[1] \in DOMAIN MorePages THEN [raw |-> MorePages[file[1]], err |-> ""]
    ELSE [raw |-> <<>>, err |-> "no such file"]

(***************************************************************************)
(* Engine configuration (Config) and construction (NewHC)                  *)
(***************************************************************************)
\* a PostProcessor: "fail" and "fail2" return an error, "nil" returns
\* (nil, nil), any other stage s appends the text s to the bytes it receives
ApplyStage(s, bytes) ==
    CASE s = "fail"  -> [out |-> <<>>, err |-> "stage failed", nil |-> TRUE]
      [] s = "fail2" -> [out |-> <<>>, err |-> "second stage failed", nil |-> TRUE]
      [] s = "nil"   -> [out |-> <<>>, err |-> "", nil |-> TRUE]
      [] OTHER       -> [out |-> Append(bytes, Txt(s)), err |-> "", nil |-> FALSE]

\* WithPagePipeline / WithPostProcessor combinations an engine is built with
StageOptions ==
    { [pagePipelines |-> <<>>, postProcessors |-> <<>>],
      [pagePipelines |-> << <<"a", "b">>, <<"c">> >>, postProcessors |-> <<"d", "e">>],
      [pagePipelines |-> << <<"a", "fail">> >>, postProcessors |-> <<"d">>],
      [pagePipelines |-> <<>>, postProcessors |-> <<"nil", "d">>] }

\* an attrPolicy as WithAttrRules starts from
NoPolicy == [required |-> {}, allowed |-> {}, allowOthers |-> FALSE]

\* the AttrRuleOption values: [opt |-> "require" | "allow" | "others", names]
RequireAttrsExact(policy, names) ==
    [policy EXCEPT !.required = @ \cup (names \ {""})]

RequireAttrs(policy, names) ==
    [policy EXCEPT !.required = @ \cup {ToLower(n) : n \in names \ {""}}]

AllowAttrs(policy, names) ==
    [policy EXCEPT !.allowed = @ \cup {ToLower(n) : n \in names \ {""}}]

AllowOtherAttrs(policy) == [policy EXCEPT !.allowOthers = TRUE]

RECURSIVE ApplyAttrRuleOptions(_, _, _)
\* for _, opt := range opts { opt(&policy) }
ApplyAttrRuleOptions(policy, opts, i) ==
    IF i > Len(opts) THEN policy
    ELSE ApplyAttrRuleOptions(
             CASE opts[i].opt = "require" -> RequireAttrs(policy, opts[i].names)
               [] opts[i].opt = "allow"   -> AllowAttrs(policy, opts[i].names)
               [] OTHER                   -> AllowOtherAttrs(policy),
             opts, i + 1)

\* WithAttrRules that leaves the allowed set as the options gave it
WithAttrRulesNoAutoAllow(policies, component, opts) ==
    IF TrimSpace(component) = "" THEN policies
    ELSE [x \in (DOMAIN policies) \cup {ToLower(TrimSpace(component))} |->
            IF x = ToLower(TrimSpace(component))
            THEN ApplyAttrRuleOptions(NoPolicy, opts, 1)
            ELSE policies[x]]

\* WithAttrRules(component, opts...): required attributes are allowed too
WithAttrRules(policies, component, opts) ==
    LET Allowing(policy) == [policy EXCEPT !.allowed = @ \cup policy.required]
    IN IF TrimSpace(component) = "" THEN policies
       ELSE [x \in (DOMAIN policies) \cup {ToLower(TrimSpace(component))} |->
               IF x = ToLower(TrimSpace(component))
               THEN Allowing(ApplyAttrRuleOptions(NoPolicy, opts, 1))
               ELSE policies[x]]

RECURSIVE ApplyAttrRules(_, _, _)
\* the WithAttrRules options of NewHC, applied in order
ApplyAttrRules(policies, rules, i) ==
    IF i > Len(rules) THEN policies
    ELSE ApplyAttrRules(WithAttrRules(policies, rules[i].component, rules[i].opts),
                        rules, i + 1)

\* context.Background(): no locale value
Background == [locale |-> ""]

\* the augmenters that return an error; every other one returns nil
FailingAugmenters == {"wfail", "nfail"}

\* WithComponentAugmenter(component, augmenter); a nil augmenter is ""
WithComponentAugmenter(augmenters, component, augmenter) ==
    LET Added(key) ==
            [x \in (DOMAIN augmenters) \cup {key} |->
                IF x # key THEN augmenters[x]
                ELSE IF key \in DOMAIN augmenters THEN Append(augmenters[key], augmenter)
                ELSE <<augmenter>>]
    IN IF augmenter = "" THEN augmenters
       ELSE IF TrimSpace(component) \in {"", "*"} THEN Added("*")
       ELSE Added(ToLower(TrimSpace(component)))

RECURSIVE ApplyAugmenterOptions(_, _, _)
\* the WithComponentAugmenter options of NewHC, applied in order
ApplyAugmenterOptions(augmenters, options, i) ==
    IF i > Len(options) THEN augmenters
    ELSE ApplyAugmenterOptions(
             WithComponentAugmenter(augmenters, options[i].component,
                                    options[i].augmenter),
             options, i + 1)

\* an engine built with WithFuncMap only; attrRules are the WithAttrRules
\* options and augmenterOptions the WithComponentAugmenter options given to
\* NewHC, attrPolicies and componentAugmenters what NewHC builds from them
BaseCfg ==
    [dataAugmenter       |-> "",
     streamingWrites     |-> FALSE,
     finalTemplatePass   |-> FALSE,
     pagePipelines       |-> <<>>,
     postProcessors      |-> <<>>,
     funcMapProvider     |-> FALSE,
     funcMap             |-> ("upper" :> "upper0"),
     cacheKeyFunc        |-> FALSE,
     localeExtractor     |-> FALSE,
     localeFallback      |-> "",
     attrRules           |-> <<>>,
     attrPolicies        |-> EmptyMap,
     augmenterOptions    |-> <<>>,
     componentAugmenters |-> EmptyMap]

Cfgs ==
    { [BaseCfg EXCEPT !.streamingWrites   = sw,
                      !.finalTemplatePass = fp,
                      !.pagePipelines     = so.pagePipelines,
                      !.postProcessors    = so.postProcessors,
                      !.funcMapProvider   = pr] :
      sw \in BOOLEAN, fp \in BOOLEAN, so \in StageOptions, pr \in BOOLEAN }

\* NewHC(folder, opts...): the configuration with its attribute policies
\* built, two empty caches and their RWMutex.  History: providerCalls counts
\* the provider's invocations, renders the top-level calls, aborted those that
\* ended in prepareRenderState before the registry was merged, reads lists the
\* component sources read from the file system, loaded the component names
\* whose source a load obtained, stored the (cache, key) pairs written, keyed the
\* templates loadComponentTemplate returned: for which locale value and
\* component, under which key, compiled by that load or taken from the cache
NewHC(cfg) ==
    [cfg |-> [cfg EXCEPT !.attrPolicies = ApplyAttrRules(EmptyMap, cfg.attrRules, 1),
                         !.componentAugmenters =
                             ApplyAugmenterOptions(EmptyMap, cfg.augmenterOptions, 1)],
     entries |-> EmptyMap, sources |-> EmptyMap,
     mu |-> [readers |-> {}, writer |-> 0],
     providerCalls |-> 0, renders |-> 0, aborted |-> 0, reads |-> <<>>,
     loaded |-> {}, stored |-> {}, keyed |-> {}]

(***************************************************************************)
(* Render state and caches                                                 *)
(***************************************************************************)
\* the results of the functions the provider hands out: the n-th invocation
\* returns a function of its own
DynImpl == <<"dyn1", "dyn2", "dyn3", "dyn4">>

\* h.cfg.funcMapProvider(ctx), at its n-th invocation
Provider(ctx, n) == "dyn" :> DynImpl[n]

\* mergedFuncMap writing the provider's output into the static registry
mergedFuncMapInPlace(g, ctx) ==
    IF g.cfg.funcMapProvider
    THEN [merged |-> Provider(ctx, g.providerCalls + 1) @@ g.cfg.funcMap,
          static |-> Provider(ctx, g.providerCalls + 1) @@ g.cfg.funcMap]
    ELSE [merged |-> g.cfg.funcMap, static |-> g.cfg.funcMap]

\* mergedFuncMap: a clone of the static registry with the provider's output
\* for this call written over it; static is the engine's registry afterwards
mergedFuncMap(g, ctx) ==
    IF g.cfg.funcMapProvider
    THEN [merged |-> Provider(ctx, g.providerCalls + 1) @@ g.cfg.funcMap,
          static |-> g.cfg.funcMap]
    ELSE [merged |-> g.cfg.funcMap, static |-> g.cfg.funcMap]

\* number of provider invocations one prepareRenderState makes
ProviderInvocations(cfg) == IF cfg.funcMapProvider THEN 1 ELSE 0

componentFuncMap(funcs) == ("forwardAttrs" :> "forwardAttrs") @@ funcs

\* the cache-key function of the engines that configure one: the locale of the
\* context in front of the lower-cased name, "" without a locale
CacheKeyFunc(ctx, componentName) ==
    IF ctx.locale = "" THEN "" ELSE ctx.locale \o ":" \o ToLower(componentName)

\* the key function consulted a second time by one cacheKey
KeyFuncCallsTwice(cfg) == IF cfg.cacheKeyFunc THEN 2 ELSE 0

\* calls of h.cfg.cacheKeyFunc made by one cacheKey
KeyFuncCalls(cfg) == IF cfg.cacheKeyFunc THEN 1 ELSE 0

\* cacheKey without the locale prefix
cacheKeyWithoutLocale(cfg, ctx, componentName) ==
    IF cfg.cacheKeyFunc /\ TrimSpace(CacheKeyFunc(ctx, componentName)) # ""
    THEN TrimSpace(CacheKeyFunc(ctx, componentName))
    ELSE ToLower(componentName)

cacheKey(cfg, ctx, componentName) ==
    LET Prefixed(base, locale) ==
            IF locale # "" THEN ToLower(locale) \o ":" \o base ELSE base
        Localized(base, locale) ==
            Prefixed(base, IF locale = "" THEN cfg.localeFallback ELSE locale)
        Keyed(base) ==
            IF cfg.localeExtractor THEN Localized(base, TrimSpace(ctx.locale)) ELSE base
    IN Keyed(IF cfg.cacheKeyFunc /\ TrimSpace(CacheKeyFunc(ctx, componentName)) # ""
             THEN TrimSpace(CacheKeyFunc(ctx, componentName))
             ELSE ToLower(componentName))

\* the source cache keyed by the name as written
sourceCacheKeyExact(name) == name

\* the key of getComponentSource: the lower-cased component name
sourceCacheKey(name) == ToLower(name)

Put(f, k, v) == [x \in (DOMAIN f) \cup {k} |-> IF x = k THEN v ELSE f[x]]

\* getComponentSource: the cached source, or the file read and stored
getComponentSource(g, name) ==
    LET Read(key, rd) ==
            IF rd.err # ""
            THEN [content |-> rd.content, source |-> rd.source, err |-> rd.err, g |-> g]
            ELSE [content |-> rd.content, source |-> rd.source, err |-> "",
                  g |-> [g EXCEPT
                           !.sources = Put(@, key, [content |-> rd.content,
                                                    source |-> rd.source]),
                           !.reads = Append(@, key)]]
        Lookup(key) ==
            IF key \in DOMAIN g.sources
            THEN [content |-> g.sources[key].content, source |-> g.sources[key].source,
                  err |-> "", g |-> g]
            ELSE Read(key, readComponentFile(name))
    IN Lookup(sourceCacheKey(name))

NoTpl == [name |-> "", body |-> <<>>, funcs |-> EmptyMap]

\* the compiled-template cache used whether or not a provider is configured
UsesTemplateCacheAlways(cfg) == TRUE

\* whether loadComponentTemplate consults and fills the compiled-template cache
UsesTemplateCache(cfg) == ~cfg.funcMapProvider

\* loadComponentTemplate: tpl, err, the engine with its caches updated, and
\* whether the template was compiled by this call
loadComponentTemplate(g, ctx, funcs, name) ==
    LET Store(key, src, tpl, cached) ==
            [tpl |-> tpl, err |-> "",
             g |-> IF cached THEN [src.g EXCEPT !.entries = Put(@, key, tpl)] ELSE src.g,
             compiled |-> TRUE]
        Compile(key, src) ==
            IF src.err # ""
            THEN [tpl |-> NoTpl, err |-> src.err, g |-> src.g, compiled |-> FALSE]
            ELSE IF ~ParseTemplate(src.content, componentFuncMap(funcs))
            THEN [tpl |-> NoTpl, err |-> "parse component", g |-> src.g,
                  compiled |-> FALSE]
            ELSE Store(key, src,
                       [name |-> name, body |-> src.content.body,
                        funcs |-> componentFuncMap(funcs)],
                       UsesTemplateCache(g.cfg))
        Load(key, cached) ==
            IF cached /\ key \in DOMAIN g.entries
            THEN [tpl |-> g.entries[key], err |-> "", g |-> g, compiled |-> FALSE]
            ELSE Compile(key, getComponentSource(g, name))
    IN Load(cacheKey(g.cfg, ctx, name), UsesTemplateCache(g.cfg))

\* the record of a template returned by loadComponentTemplate
Returned(cfg, ctx, name, compiled) ==
    [locale |-> ctx.locale, name |-> name, key |-> cacheKey(cfg, ctx, name),
     compiled |-> compiled]

\* the values of attributes: Go strings and Go bools
StringValue(s) == [kind |-> "string", s |-> s, b |-> FALSE]

BoolValue(b) == [kind |-> "bool", s |-> "", b |-> b]

\* text/template Parse and Execute on an attribute expression: "{{bad" does
\* not parse, {{dyn}} calls the function dyn, {{sp}} stands for an action
\* that prints one blank, {{t}} for one that prints true; other text is
\* copied
ExecuteAttr(funcs, raw) ==
    CASE raw = "{{bad"   -> [text |-> "", err |-> "attr"]
      [] raw = "{{dyn}}" -> IF "dyn" \in DOMAIN funcs
                            THEN [text |-> funcs["dyn"], err |-> ""]
                            ELSE [text |-> "", err |-> "attr"]
      [] raw = "{{sp}}"  -> [text |-> " ", err |-> ""]
      [] raw = "{{t}}"   -> [text |-> "true", err |-> ""]
      [] raw = "{{t}} "  -> [text |-> "true ", err |-> ""]
      [] OTHER           -> [text |-> raw, err |-> ""]

\* interpretAttrValue comparing the text as it is
interpretAttrValueExact(raw) ==
    IF raw = "" THEN StringValue("")
    ELSE IF raw \in {"true", "false"} THEN BoolValue(raw = "true")
    ELSE StringValue(raw)

\* interpretAttrValue
interpretAttrValue(raw) ==
    IF TrimSpace(raw) = "" THEN StringValue("")
    ELSE IF TrimSpace(raw) \in {"true", "false"} THEN BoolValue(TrimSpace(raw) = "true")
    ELSE StringValue(raw)

\* evaluateAttr on one attribute expression; engine tells whether the
\* expression was handed to text/template
evaluateAttr(funcs, raw) ==
    LET Evaluated(x) ==
            IF x.err # ""
            THEN [value |-> StringValue(""), err |-> x.err, engine |-> TRUE]
            ELSE [value |-> interpretAttrValue(x.text), err |-> "", engine |-> TRUE]
    IN IF TrimSpace(raw) = ""
       THEN [value |-> StringValue(""), err |-> "", engine |-> FALSE]
       ELSE Evaluated(ExecuteAttr(funcs, raw))

\* the evaluations resolveAttrs makes, in the order of the attributes, up to
\* and including the first that fails
EvaluatedAttrs(funcs, attrs) ==
    LET n == IF \E i \in 1..Len(attrs) : evaluateAttr(funcs, attrs[i].v).err # ""
             THEN CHOOSE i \in 1..Len(attrs) :
                      /\ evaluateAttr(funcs, attrs[i].v).err # ""
                      /\ \A j \in 1..(i - 1) : evaluateAttr(funcs, attrs[j].v).err = ""
             ELSE Len(attrs)
        Entry(raw, ev) == [raw |-> raw, value |-> ev.value, err |-> ev.err,
                           engine |-> ev.engine]
    IN [i \in 1..n |-> Entry(attrs[i].v, evaluateAttr(funcs, attrs[i].v))]

\* the functions the attribute expressions run before the first error
AttrCalled(funcs, attrs) ==
    {funcs["dyn"] : i \in {j \in 1..Len(attrs) :
                              /\ attrs[j].v = "{{dyn}}" /\ "dyn" \in DOMAIN funcs
                              /\ \A k \in 1..(j - 1) :
                                     evaluateAttr(funcs, attrs[k].v).err = ""}}

\* resolveAttrs: Props keyed by lower-cased name (last one wins), or the error
resolveAttrs(funcs, attrs) ==
    IF \E i \in 1..Len(attrs) : evaluateAttr(funcs, attrs[i].v).err # ""
    THEN [props |-> EmptyMap, err |-> "attr"]
    ELSE [props |->
            [key \in {ToLower(attrs[i].n) : i \in 1..Len(attrs)} |->
                LET last == CHOOSE i \in 1..Len(attrs) :
                                /\ ToLower(attrs[i].n) = key
                                /\ \A j \in 1..Len(attrs) :
                                       ToLower(attrs[j].n) = key => j <= i
                IN evaluateAttr(funcs, attrs[last].v).value],
          err |-> ""]

\* validateAttributes: the errors it can return ("" is nil); which missing or
\* unsupported attribute is named depends on Go's map iteration order
validateAttributes(cfg, component, props) ==
    LET Check(policy) ==
            IF \E req \in policy.required : req \notin DOMAIN props
            THEN {"missing required attr " \o req :
                     req \in {q \in policy.required : q \notin DOMAIN props}}
            ELSE IF policy.allowOthers THEN {""}
            ELSE IF \E name \in DOMAIN props : name \notin policy.allowed
            THEN {"unsupported attr " \o name :
                     name \in {a \in DOMAIN props : a \notin policy.allowed}}
            ELSE {""}
    IN IF ToLower(component) \notin DOMAIN cfg.attrPolicies THEN {""}
       ELSE Check(cfg.attrPolicies[ToLower(component)])

\* the augmenters of a list invoked one after the other up to the first that
\* returns an error
RunAugmenters(augs) ==
    LET failing == {i \in 1..Len(augs) : augs[i] \in FailingAugmenters}
        Upto(n) == [err |-> "augmenter " \o augs[n] \o " failed",
                    invoked |-> SubSeq(augs, 1, n)]
    IN IF failing = {} THEN [err |-> "", invoked |-> augs]
       ELSE Upto(CHOOSE i \in failing : \A j \in failing : i <= j)

\* applyComponentAugmenters with the component's own augmenters first
applyComponentAugmentersNamedFirst(cfg, component) ==
    LET For(key) == IF key \in DOMAIN cfg.componentAugmenters
                    THEN cfg.componentAugmenters[key] ELSE <<>>
    IN RunAugmenters(For(ToLower(component)) \o For("*"))

\* applyComponentAugmenters: the "*" augmenters, then the component's own;
\* err, and the augmenters invoked on the payload
applyComponentAugmenters(cfg, component) ==
    LET For(key) == IF key \in DOMAIN cfg.componentAugmenters
                    THEN cfg.componentAugmenters[key] ELSE <<>>
    IN RunAugmenters(For("*") \o For(ToLower(component)))

\* the props the augmenters put into the payload: w1 sets msg, n1 sets extra,
\* the others set none
AugmenterProps(invoked) ==
    {"msg" : i \in {j \in 1..Len(invoked) : invoked[j] = "w1"}}
        \cup {"extra" : i \in {j \in 1..Len(invoked) : invoked[j] = "n1"}}

\* Props of the payload after the augmenters invoked on it
AugmentedProps(props, invoked) ==
    [k \in AugmenterProps(invoked) |-> StringValue("injected")] @@ props

\* the policy check made on the payload the augmenters have been through
ValidatedPropsAugmented(cfg, component, props) ==
    AugmentedProps(props, applyComponentAugmenters(cfg, component).invoked)

\* the props renderComponent hands to validateAttributes: those resolveAttrs
\* returned for the attributes of the tag
ValidatedProps(cfg, component, props) == props

(***************************************************************************)
(* Root data of a render                                                   *)
(***************************************************************************)
\* the data value of a caller that passes nil
NilData == [t |-> "nil", ptr |-> FALSE, null |-> FALSE, m |-> EmptyMap]

\* a map[string]any freshly made by the engine or by a data augmenter
NewMap(m) == [t |-> "map", ptr |-> FALSE, null |-> FALSE, m |-> m]

\* the func(context.Context, any) any given to WithDataAugmenter: "defaults"
\* returns a new map with a Default entry for nil and for a map[string]any
\* (a copy with Default set) and the data itself otherwise, "nil" returns nil
DataAugmenter(a, ctx, data) ==
    CASE a = "defaults" ->
            IF data.t = "nil" THEN NewMap("Default" :> [v |-> "augmented"])
            ELSE IF data.t = "map" /\ ~data.ptr
            THEN NewMap(("Default" :> [v |-> "augmented"]) @@ data.m)
            ELSE data
      [] OTHER -> NilData

\* prepareRenderState: the data after the optional data augmenter; own tells
\* whether it is still the caller's object
AugmentedData(cfg, ctx, data) ==
    LET Kept(result) ==
            IF result.t = "nil" \/ result = data THEN [val |-> data, own |-> TRUE]
            ELSE [val |-> result, own |-> FALSE]
    IN IF cfg.dataAugmenter # "" THEN Kept(DataAugmenter(cfg.dataAugmenter, ctx, data))
       ELSE [val |-> data, own |-> TRUE]

\* the context written into the caller's own mapping
dataWithContextInPlace(data, ctx) ==
    IF data.t = "nil" THEN [root |-> NewMap("Ctx" :> ctx), shared |-> FALSE, data |-> data]
    ELSE IF data.null THEN [root |-> data, shared |-> TRUE, data |-> data]
    ELSE IF data.t \in {"map", "strmap"}
    THEN [root   |-> [data EXCEPT !.m = ("Ctx" :> ctx) @@ @],
          shared |-> TRUE,
          data   |-> [data EXCEPT !.m = ("Ctx" :> ctx) @@ @]]
    ELSE [root |-> data, shared |-> TRUE, data |-> data]

\* dataWithContext (ctx is never nil here: prepareRenderState has put
\* context.Background() in its place): root is the value the render state
\* holds, shared tells whether it is the caller's own object, data is the
\* caller's object after the call
dataWithContext(data, ctx) ==
    LET Same == [root |-> data, shared |-> TRUE, data |-> data]
        Copy(m) == [root |-> NewMap(m), shared |-> FALSE, data |-> data]
    IN IF data.t = "nil" THEN Copy("Ctx" :> ctx)
       ELSE IF data.t = "map"
       THEN IF data.ptr /\ data.null THEN Same
            ELSE IF "Ctx" \in DOMAIN data.m
            THEN [root |-> [data EXCEPT !.ptr = FALSE], shared |-> TRUE, data |-> data]
            ELSE Copy(data.m @@ ("Ctx" :> ctx))
       ELSE IF data.ptr /\ data.null THEN Same
       ELSE IF data.t = "strmap"
       THEN Copy(data.m @@ ("Ctx" :> ctx))
       ELSE Same

(***************************************************************************)
(* Render pipeline                                                         *)
(***************************************************************************)
\* executeFinalTemplate: the buffer parsed and executed as one template
executeFinalTemplate(funcs, input) ==
    IF \E i \in 1..Len(input) : input[i].k = "text" /\ input[i].n = "{{bad"
    THEN [out |-> <<>>, err |-> "final template"]
    ELSE [out |-> [i \in 1..Len(input) |->
                     IF input[i].k = "text" /\ input[i].n = "{{v}}"
                     THEN Txt("v") ELSE input[i]],
          err |-> ""]

\* a nil result without an error taken for a failure
StageResultNilFails(r) ==
    IF r.err # "" THEN [out |-> <<>>, err |-> r.err]
    ELSE IF r.nil THEN [out |-> <<>>, err |-> "stage returned nil"]
    ELSE [out |-> r.out, err |-> ""]

\* what applyPostProcessing makes of a stage's return: the error, or the
\* bytes with []byte{} in place of nil
StageResult(r) ==
    IF r.err # "" THEN [out |-> <<>>, err |-> r.err]
    ELSE IF r.nil THEN [out |-> <<>>, err |-> ""]
    ELSE [out |-> r.out, err |-> ""]

RECURSIVE RunStages(_, _, _)
\* the stages from index i on, each fed the bytes of the one before; ran
\* lists the stages invoked, trace what each received and returned
RunStages(stages, i, cur) ==
    LET Step(r) == [stage |-> stages[i], in |-> cur, out |-> r.out, err |-> r.err]
        Before(r, rest) ==
            [rest EXCEPT !.ran = <<stages[i]>> \o @, !.trace = <<Step(r)>> \o @]
        Ran(r) ==
            IF r.err # ""
            THEN [out |-> <<>>, err |-> r.err, ran |-> <<stages[i]>>,
                  trace |-> <<Step(r)>>]
            ELSE Before(r, RunStages(stages, i + 1, r.out))
    IN IF i > Len(stages) THEN [out |-> cur, err |-> "", ran |-> <<>>, trace |-> <<>>]
       ELSE Ran(StageResult(ApplyStage(stages[i], cur)))

RECURSIVE Flatten(_)
Flatten(ss) == IF ss = <<>> THEN <<>> ELSE Head(ss) \o Flatten(Tail(ss))

\* the standalone post-processors in front of the pipelines
StageOrderProcessorsFirst(cfg) == cfg.postProcessors \o Flatten(cfg.pagePipelines)

\* the stages in the order applyPostProcessing invokes them: every pipeline
\* in turn, step by step, then the post-processors
StageOrder(cfg) == Flatten(cfg.pagePipelines) \o cfg.postProcessors

\* applyPostProcessing: final pass (if enabled), pipelines, post-processors
applyPostProcessing(cfg, funcs, input, enableFinalTemplate) ==
    LET Final(fin) ==
            [stage |-> "final", in |-> input, out |-> fin.out, err |-> fin.err]
        Staged(fin, rs) == [rs EXCEPT !.trace = <<Final(fin)>> \o @]
        After(fin) ==
            IF fin.err # ""
            THEN [out |-> <<>>, err |-> fin.err, ran |-> <<>>, trace |-> <<Final(fin)>>]
            ELSE Staged(fin, RunStages(StageOrder(cfg), 1, fin.out))
    IN IF enableFinalTemplate THEN After(executeFinalTemplate(funcs, input))
       ELSE RunStages(StageOrder(cfg), 1, input)

\* canStream without the test of the writer
canStreamWithoutWriter(cfg, wnil) ==
    /\ cfg.streamingWrites
    /\ ~cfg.finalTemplatePass
    /\ Len(cfg.postProcessors) = 0
    /\ Len(cfg.pagePipelines) = 0

\* canStream without the test of finalTemplatePass
canStreamIgnoringFinalPass(cfg, wnil) ==
    /\ cfg.streamingWrites
    /\ ~wnil
    /\ Len(cfg.postProcessors) = 0
    /\ Len(cfg.pagePipelines) = 0

\* the canStream condition of ParseFileContext
canStream(cfg, wnil) ==
    /\ cfg.streamingWrites
    /\ ~wnil
    /\ ~cfg.finalTemplatePass
    /\ Len(cfg.postProcessors) = 0
    /\ Len(cfg.pagePipelines) = 0


(***************************************************************************)
(* Pass-based expansion (renderAll, replaceOnce) of the engine that only  *)
(* has ParseFile, a static function map and the compiled-template cache    *)
(***************************************************************************)
\* loadComponentTemplate of the pass-based engine: one cache, keyed by the
\* lower-cased name
loadComponentTemplateOnce(g, name) ==
    LET Compiled(rd) ==
            IF rd.err # "" THEN [tpl |-> NoTpl, err |-> rd.err, g |-> g]
            ELSE IF ~ParseTemplate(rd.content, componentFuncMap(g.cfg.funcMap))
            THEN [tpl |-> NoTpl, err |-> "parse component", g |-> g]
            ELSE [tpl |-> [name |-> name, body |-> rd.content.body,
                           funcs |-> componentFuncMap(g.cfg.funcMap)],
                  err |-> "",
                  g |-> [g EXCEPT !.entries =
                            Put(@, ToLower(name),
                                [name |-> name, body |-> rd.content.body,
                                 funcs |-> componentFuncMap(g.cfg.funcMap)])]]
    IN IF ToLower(name) \in DOMAIN g.entries
       THEN [tpl |-> g.entries[ToLower(name)], err |-> "", g |-> g]
       ELSE Compiled(readComponentFile(name))

RECURSIVE renderAllFrom(_, _, _)
RECURSIVE Replacements(_, _, _, _)

\* renderComponent of the pass-based engine: the children are expanded by a
\* renderAll of their own
renderComponentOnce(g, elem, raw) ==
    LET Failed(g1, err) == [out |-> <<>>, err |-> err, g |-> g1]
        Executed(g1, ex) ==
            IF ex.err # "" THEN Failed(g1, ex.err) ELSE [out |-> ex.out, err |-> "", g |-> g1]
        Resolved(lt, sp, rc, ra) ==
            IF ra.err # "" THEN Failed(rc.g, ra.err)
            ELSE Executed(rc.g,
                          Execute(lt.tpl,
                                  [Props |-> ra.props, Attrs |-> elem.a,
                                   Ctx |-> NilData, Component |-> elem.n,
                                   HasChildren |-> Len(sp.children) > 0,
                                   ChildrenRaw |-> sp.children, Children |-> rc.out,
                                   SelfClosing |-> sp.selfClosing]))
        Rendered(lt, sp, rc) ==
            IF rc.err # "" THEN Failed(rc.g, rc.err)
            ELSE Resolved(lt, sp, rc, resolveAttrs(g.cfg.funcMap, elem.a))
        Split(lt, sp) ==
            IF sp.err # "" THEN Failed(lt.g, sp.err)
            ELSE Rendered(lt, sp,
                          IF Len(sp.children) > 0 THEN renderAllFrom(lt.g, sp.children, 0)
                          ELSE [out |-> <<>>, err |-> "", g |-> lt.g])
        Loaded(lt) ==
            IF lt.err # "" THEN Failed(lt.g, lt.err)
            ELSE Split(lt, splitComponentBody(raw, elem.n))
    IN Loaded(loadComponentTemplateOnce(g, elem.n))

\* replaceOnce, its scan: the replacements of the component occurrences from
\* decoder position d on, each rendered when it is met
Replacements(g, input, d, repls) ==
    LET Added(sp, rc) ==
            IF rc.err # "" THEN [repls |-> <<>>, err |-> rc.err, g |-> rc.g]
            ELSE Replacements(rc.g, input, sp.d,
                              Append(repls, [start |-> sp.start, end |-> sp.end,
                                             rendered |-> rc.out]))
        Found(sp) ==
            CASE sp.kind = "eof" -> [repls |-> repls, err |-> "", g |-> g]
              [] sp.kind = "err" -> [repls |-> <<>>, err |-> sp.err, g |-> g]
              [] OTHER ->
                   Added(sp, renderComponentOnce(g, sp.elem,
                                                 Slice(input, sp.start, sp.end)))
    IN Found(FindSpan(input, d))

RECURSIVE Splice(_, _, _, _)
\* replaceOnce, its rewrite: the literal before each replacement, the rendered
\* fragment, and the tail after the last
Splice(input, repls, i, cursor) ==
    IF i > Len(repls) THEN Slice(input, cursor, Len(input))
    ELSE Slice(input, cursor, repls[i].start) \o repls[i].rendered
             \o Splice(input, repls, i + 1, repls[i].end)

\* replaceOnce: one pass over the buffer
replaceOnce(g, input) ==
    LET Rewritten(rs) ==
            IF rs.err # "" THEN [out |-> <<>>, changed |-> FALSE, err |-> rs.err, g |-> rs.g]
            ELSE IF Len(rs.repls) = 0
            THEN [out |-> input, changed |-> FALSE, err |-> "", g |-> rs.g]
            ELSE [out |-> Splice(input, rs.repls, 1, 0), changed |-> TRUE, err |-> "",
                  g |-> rs.g]
    IN Rewritten(Replacements(g, input, NewDecoder, <<>>))

\* renderAll after n iterations of its loop over maxComponentPasses passes
renderAllFrom(g, current, n) ==
    LET Passed(r) ==
            IF r.err # "" THEN [out |-> <<>>, err |-> r.err, g |-> r.g]
            ELSE IF ~r.changed THEN [out |-> r.out, err |-> "", g |-> r.g]
            ELSE renderAllFrom(r.g, r.out, n + 1)
    IN IF n >= maxComponentPasses
       THEN [out |-> <<>>, err |-> "exceeded passes", g |-> g]
       ELSE Passed(replaceOnce(g, current))

(***************************************************************************)
(* State                                                                   *)
(***************************************************************************)
VARIABLES
    eng,    \* the engines (HC values): configuration, caches, history counters
    call    \* the top-level render calls: position, frames, buffers, sink

vars == <<eng, call>>

\* no component source in hand
NoSource == [content |-> Tpl(FALSE, <<>>), source |-> <<"", "">>]

StreamFrame(input, depth, w) ==
    [f |-> "stream", pc |-> "scan", input |-> input, d |-> NewDecoder, cursor |-> 0,
     depth |-> depth, w |-> w, start |-> 0, end |-> 0, elem |-> NoTok, raw |-> <<>>,
     tpl |-> NoTpl, children |-> <<>>, selfClosing |-> FALSE, rc |-> <<>>,
     props |-> EmptyMap, key |-> "", src |-> NoSource]

CompFrame(elem, raw, depth) ==
    [f |-> "comp", pc |-> "load", input |-> <<>>, d |-> NewDecoder, cursor |-> 0,
     depth |-> depth, w |-> 0, start |-> 0, end |-> 0, elem |-> elem, raw |-> raw,
     tpl |-> NoTpl, children |-> <<>>, selfClosing |-> FALSE, rc |-> <<>>,
     props |-> EmptyMap, key |-> "", src |-> NoSource]

IdleCall(e) ==
    [pc |-> "idle", e |-> e, entry |-> "", file |-> <<"", 0>>, wnil |-> FALSE,
     ctx |-> Background, stream |-> FALSE, funcs |-> EmptyMap, provided |-> {},
     stack |-> <<>>, bufs |-> <<>>, sink |-> <<>>,
     events |-> <<>>, res |-> "", err |-> "", cur |-> <<>>, ran |-> <<>>,
     final |-> FALSE, loads |-> 0, compiles |-> 0, expanded |-> FALSE,
     rendered |-> <<>>, maxDepth |-> 0, rejectedAt |-> 0,
     log |-> <<>>, executed |-> {}, resolved |-> 0, trace |-> <<>>,
     data |-> NilData, supplied |-> NilData, root |-> NilData, shared |-> FALSE,
     prepared |-> FALSE, keyCalls |-> 0, attrLog |-> <<>>, passes |-> 0]

Top(r) == r.stack[Len(r.stack)]
Pop(q) == SubSeq(q, 1, Len(q) - 1)
SetTop(r, fr) == [r EXCEPT !.stack[Len(r.stack)] = fr]

\* writer.Write(bytes): writer 0 is the caller's sink, writer k > 0 the k-th
\* live bytes.Buffer
Write(r, w, bytes) ==
    IF w = 0 THEN [r EXCEPT !.sink = Append(@, bytes)]
    ELSE [r EXCEPT !.bufs[w] = @ \o bytes]

\* emitInstrumentation called on the failure paths only: a resolution that
\* succeeds reports no end event
EmitFailuresOnly(r, component, stage, err) ==
    IF stage = "end" /\ err = "" THEN r
    ELSE [r EXCEPT !.events = Append(@, [comp |-> component, stage |-> stage, err |-> err])]

\* emitInstrumentation
Emit(r, component, stage, err) ==
    [r EXCEPT !.events = Append(@, [comp |-> component, stage |-> stage, err |-> err])]

\* renderComponent returning err without its deferred end event
FailComponentSilently(r, err) ==
    [r EXCEPT !.stack = Pop(@), !.res = "err", !.err = err]

\* renderComponent's error reported to the hooks and then dropped: the
\* caller goes on scanning behind the component
FailComponentAndSkip(r, err) ==
    LET fr == Top(r)
        r1 == [Emit(r, fr.elem.n, "end", err) EXCEPT !.stack = Pop(@)]
    IN SetTop(r1, [Top(r1) EXCEPT !.pc = "scan", !.cursor = Top(r1).end])

\* renderComponent returns err: the deferred end event carries it
FailComponent(r, err) ==
    LET fr == Top(r)
    IN [Emit(r, fr.elem.n, "end", err) EXCEPT !.stack = Pop(@), !.res = "err", !.err = err]

\* a renderMarkupStream invocation returned nil: resume whoever called it
ReturnFromStream(r) ==
    LET r1 == [r EXCEPT !.stack = Pop(@)]
    IN IF r1.stack = <<>>
       THEN IF r.stream
            THEN [r1 EXCEPT !.pc = "done", !.res = "ok", !.expanded = TRUE,
                            !.rendered = Flatten(r.sink)]
            ELSE [r1 EXCEPT !.pc = "post", !.cur = r.bufs[1], !.bufs = <<>>,
                            !.expanded = TRUE, !.rendered = r.bufs[1]]
       ELSE LET par == Top(r1)
            IN IF par.f = "stream"
               THEN SetTop(r1, [par EXCEPT !.pc = "scan", !.cursor = par.end])
               ELSE [SetTop(r1, [par EXCEPT !.pc = "attrs", !.rc = r.bufs[Len(r.bufs)]])
                        EXCEPT !.bufs = Pop(@)]

(***************************************************************************)
(* Actions                                                                 *)
(***************************************************************************)
\* ParseFile is ParseFileContext with the background context
EntryPoints == {"ParseFileContext", "ParseFileTemplate"}

\* the top-level expansion handed the sink in either mode
TopWriterAlwaysSink(st) == 0

\* the writer of the top-level renderMarkupStream: the sink itself when
\* streaming (renderStreaming), else the buffer of renderMarkupBytes
TopWriter(st) == IF st THEN 0 ELSE 1

\* renderStreaming starting one level deeper than renderMarkupBytes
TopDepthStreamingDeeper(st) == IF st THEN 1 ELSE 0

\* the depth both renderStreaming and renderMarkupBytes start from
TopDepth(st) == 0

\* the guard written with >= : the sixteenth level is rejected
PassLimitOffByOne(depth) == depth >= maxComponentPasses

\* the guard of renderComponent: depth > maxComponentPasses
PassLimitExceeded(depth) == depth > maxComponentPasses

\* loadComponentTemplate asking the provider again for every component
ProviderPerComponent(cfg) == IF cfg.funcMapProvider THEN 1 ELSE 0

\* provider invocations of one loadComponentTemplate: it compiles with the
\* registry merged at the start of the call and only tests the provider for nil
ComponentProviderInvocations(cfg) == 0

\* an empty document let through to the expansion
ErrEmptyFileNever(raw) == FALSE

\* prepareRenderState: the document read has no bytes
ErrEmptyFile(raw) == Len(raw) = 0

\* ParseFileContext / ParseFileTemplate up to the first renderMarkupStream:
\* prepareRenderState, then the choice between streaming and buffering
StartRender(c, entry, file, wnil, ctx) ==
    LET e  == call[c].e
        g  == eng[e]
        rf == readFile(file)
        mf == mergedFuncMap(g, ctx)
        ad == AugmentedData(g.cfg, ctx, call[c].data)
        dc == dataWithContext(ad.val, ctx)
        r0 == [IdleCall(e) EXCEPT !.entry = entry, !.file = file, !.wnil = wnil,
                                  !.ctx = ctx, !.data = call[c].data,
                                  !.supplied = call[c].data]
        st == entry = "ParseFileContext" /\ canStream(g.cfg, wnil)
    IN /\ call[c].pc \in {"idle", "done"}
       /\ g.renders < MaxRenders
       /\ IF rf.err # ""
          THEN /\ call' = [call EXCEPT ![c] =
                             [r0 EXCEPT !.pc = "done", !.res = "err", !.err = rf.err]]
               /\ eng' = [eng EXCEPT ![e].renders = @ + 1, ![e].aborted = @ + 1]
          ELSE IF ErrEmptyFile(rf.raw)
          THEN /\ call' = [call EXCEPT ![c] =
                             [r0 EXCEPT !.pc = "done", !.res = "err",
                                        !.err = "file is empty"]]
               /\ eng' = [eng EXCEPT ![e].renders = @ + 1, ![e].aborted = @ + 1]
          ELSE IF st /\ wnil
          THEN /\ call' = [call EXCEPT ![c] =
                             [r0 EXCEPT !.pc = "done", !.res = "err", !.stream = st,
                                        !.err = "streaming requires a writer",
                                        !.funcs = mf.merged,
                                        !.root = dc.root,
                                        !.data = IF ad.own THEN dc.data ELSE @,
                                        !.shared = ad.own /\ dc.shared,
                                        !.prepared = TRUE]]
               /\ eng' = [eng EXCEPT ![e].renders = @ + 1,
                                     ![e].providerCalls = @ + ProviderInvocations(g.cfg),
                                     ![e].cfg.funcMap = mf.static]
          ELSE /\ call' = [call EXCEPT ![c] =
                             [r0 EXCEPT !.pc = "run", !.stream = st,
                                        !.funcs = mf.merged,
                                        !.root = dc.root,
                                        !.data = IF ad.own THEN dc.data ELSE @,
                                        !.shared = ad.own /\ dc.shared,
                                        !.prepared = TRUE,
                                        !.provided =
                                            IF g.cfg.funcMapProvider
                                            THEN {DynImpl[g.providerCalls + 1]}
                                            ELSE {},
                                        !.stack = <<StreamFrame(rf.raw, TopDepth(st),
                                                                TopWriter(st))>>,
                                        !.bufs = IF st THEN <<>> ELSE << <<>> >>]]
               /\ eng' = [eng EXCEPT ![e].renders = @ + 1,
                                     ![e].providerCalls = @ + ProviderInvocations(g.cfg),
                                     ![e].cfg.funcMap = mf.static]

\* the literal span in front of a component, and the tail after the last one
LiteralBefore(input, cursor, start) == Slice(input, cursor, start)

TailSpan(input, cursor) == Slice(input, cursor, Len(input))

Running(c) == call[c].pc = "run" /\ call[c].res = "" /\ call[c].stack # <<>>

\* renderMarkupStream, one iteration of its loop: the next component span is
\* found and the literal before it written, or the input ends and the tail is
\* written, or the tokenizer fails
ScanStep(c) ==
    LET Enter(fr, sp, r1) ==
            Emit([r1 EXCEPT
                    !.stack = Append(Pop(@) \o <<[fr EXCEPT !.pc = "component",
                                                            !.d = sp.d, !.start = sp.start,
                                                            !.end = sp.end,
                                                            !.elem = sp.elem]>>,
                                     CompFrame(sp.elem, Slice(fr.input, sp.start, sp.end),
                                               fr.depth + 1))],
                 sp.elem.n, "begin", "")
        Scanned(r, fr, sp) ==
            CASE sp.kind = "eof" ->
                   ReturnFromStream(IF fr.cursor < Len(fr.input)
                                    THEN Write(r, fr.w, TailSpan(fr.input, fr.cursor))
                                    ELSE r)
              [] sp.kind = "err" ->
                   [r EXCEPT !.stack = Pop(@), !.res = "err", !.err = sp.err]
              [] OTHER ->
                   Enter(fr, sp,
                         IF sp.start > fr.cursor
                         THEN Write(r, fr.w, LiteralBefore(fr.input, fr.cursor, sp.start))
                         ELSE r)
        Scan(r, fr) == Scanned(r, fr, FindSpan(fr.input, fr.d))
    IN /\ Running(c)
       /\ Top(call[c]).f = "stream" /\ Top(call[c]).pc = "scan"
       /\ UNCHANGED eng
       /\ call' = [call EXCEPT ![c] = Scan(call[c], Top(call[c]))]

\* renderComponent: the pass-limit check and loadComponentTemplate
CompLoad(c) ==
    LET Counted(r, fr, lt) ==
            [r EXCEPT !.keyCalls = @ + KeyFuncCalls(eng[r.e].cfg),
                      !.loads = @ + (IF lt.err = "" THEN 1 ELSE 0),
                      !.compiles = @ + (IF lt.compiled THEN 1 ELSE 0),
                      !.maxDepth = IF fr.depth > @ THEN fr.depth ELSE @]
        Loaded(r, fr, lt) ==
            /\ eng' = [eng EXCEPT ![r.e] =
                  [lt.g EXCEPT !.providerCalls =
                                  @ + ComponentProviderInvocations(lt.g.cfg),
                               !.loaded = IF lt.err \in {"", "parse component"}
                                          THEN @ \cup {fr.elem.n} ELSE @,
                               !.stored = @ \cup
                                          {<<"entries", k>> : k \in DOMAIN lt.g.entries} \cup
                                          {<<"sources", k>> : k \in DOMAIN lt.g.sources},
                               !.keyed = IF lt.err = ""
                                         THEN @ \cup {Returned(lt.g.cfg, r.ctx, fr.elem.n,
                                                            lt.compiled)}
                                         ELSE @]]
            /\ call' = [call EXCEPT ![c] =
                  IF lt.err # "" THEN FailComponent(Counted(r, fr, lt), lt.err)
                  ELSE SetTop(Counted(r, fr, lt),
                              [fr EXCEPT !.pc = "split", !.tpl = lt.tpl])]
        Load(r, fr) ==
            IF PassLimitExceeded(fr.depth)
            THEN /\ call' = [call EXCEPT ![c] =
                      FailComponent([r EXCEPT !.rejectedAt = fr.depth], "exceeded passes")]
                 /\ UNCHANGED eng
            ELSE Loaded(r, fr, loadComponentTemplate(eng[r.e], r.ctx, r.funcs,
                                                     fr.elem.n))
    IN /\ Running(c)
       /\ Top(call[c]).f = "comp" /\ Top(call[c]).pc = "load"
       /\ Load(call[c], Top(call[c]))

\* child content streamed to the sink as soon as it is expanded
ChildWriterOfParent(r) == IF r.stream THEN 0 ELSE Len(r.bufs) + 1

\* the writer of a child expansion: always a fresh buffer (renderMarkupBytes)
ChildWriter(r) == Len(r.bufs) + 1

\* renderComponent: splitComponentBody and the start of the child expansion
CompSplit(c) ==
    LET r  == call[c]
        fr == Top(r)
        sb == splitComponentBody(fr.raw, fr.elem.n)
    IN /\ Running(c)
       /\ fr.f = "comp" /\ fr.pc = "split"
       /\ UNCHANGED eng
       /\ call' = [call EXCEPT ![c] =
            CASE sb.err = "panic" ->
                   \* run-time panic: the deferred end event fires with execErr unset
                   [Emit(r, fr.elem.n, "end", "") EXCEPT
                       !.stack = Pop(@), !.res = "panic", !.err = "slice bounds out of range"]
              [] sb.err # "" /\ sb.err # "panic" -> FailComponent(r, sb.err)
              [] OTHER ->
                   IF Len(sb.children) > 0
                   THEN LET r1 == SetTop(r, [fr EXCEPT !.pc = "children",
                                                       !.children = sb.children,
                                                       !.selfClosing = sb.selfClosing])
                        IN [r1 EXCEPT
                              !.bufs = Append(@, <<>>),
                              !.stack = Append(@, StreamFrame(sb.children, fr.depth + 1,
                                                              ChildWriter(r)))]
                   ELSE SetTop(r, [fr EXCEPT !.pc = "attrs",
                                             !.children = sb.children,
                                             !.selfClosing = sb.selfClosing])]

\* renderComponent: resolveAttrs (and attribute validation)
CompAttrs(c) ==
    LET Logged(r, fr, verr) ==
            [r EXCEPT !.log = Append(@, [op |-> "validate", comp |-> fr.elem.n,
                                         attrs |-> fr.elem.a, err |-> verr,
                                         aug |-> <<>>])]
        Validated(r, fr, ra, verr) ==
            IF verr # "" THEN FailComponent(Logged(r, fr, verr), verr)
            ELSE SetTop(Logged(r, fr, verr), [fr EXCEPT !.pc = "exec", !.props = ra.props])
        Resolved(r, fr, ra) ==
            IF ra.err # ""
            THEN call' = [call EXCEPT ![c] = FailComponent(r, ra.err)]
            ELSE \E verr \in validateAttributes(eng[r.e].cfg, fr.elem.n,
                                                ValidatedProps(eng[r.e].cfg, fr.elem.n,
                                                               ra.props)) :
                     call' = [call EXCEPT ![c] = Validated(r, fr, ra, verr)]
        Resolve(r, fr) ==
            Resolved([r EXCEPT !.executed = @ \cup AttrCalled(r.funcs, fr.elem.a),
                               !.attrLog = @ \o EvaluatedAttrs(r.funcs, fr.elem.a)],
                     fr, resolveAttrs(r.funcs, fr.elem.a))
    IN /\ Running(c)
       /\ Top(call[c]).f = "comp" /\ Top(call[c]).pc = "attrs"
       /\ UNCHANGED eng
       /\ Resolve(call[c], Top(call[c]))

\* the payload with HasChildren set for every tag that is not self-closing
PayloadHasChildrenUnlessSelfClosing(fr, ctx, data) ==
    [Props |-> fr.props, Attrs |-> fr.elem.a, Ctx |-> ctx, Data |-> data, Root |-> data,
     Component |-> fr.elem.n,
     HasChildren |-> ~fr.selfClosing, ChildrenRaw |-> fr.children,
     Children |-> fr.rc, SelfClosing |-> fr.selfClosing]

\* the invocation payload renderComponent builds
Payload(fr, ctx, data) ==
    [Props |-> fr.props, Attrs |-> fr.elem.a, Ctx |-> ctx, Data |-> data, Root |-> data,
     Component |-> fr.elem.n,
     HasChildren |-> Len(fr.children) > 0, ChildrenRaw |-> fr.children,
     Children |-> fr.rc, SelfClosing |-> fr.selfClosing]

\* renderComponent: template execution and return; the caller then renders
\* the fragment one level deeper into the same writer
CompExec(c) ==
    LET Expand(r1, par, out) ==
            [r1 EXCEPT !.resolved = @ + 1,
                       !.stack = Append(Pop(@) \o <<[par EXCEPT !.pc = "expanding"]>>,
                                        StreamFrame(out, par.depth + 1, par.w))]
        Return(r1, out) == Expand(r1, Top(r1), out)
        Logged(r, fr, err, aug) ==
            [r EXCEPT !.log = Append(@, [op |-> "execute", comp |-> fr.elem.n,
                                         attrs |-> fr.elem.a, err |-> err,
                                         aug |-> aug]),
                      !.executed = @ \cup CalledBy(fr.tpl)]
        Executed(r, fr, ex, aug) ==
            IF ex.err # "" THEN FailComponent(Logged(r, fr, ex.err, aug), ex.err)
            ELSE Return([Emit(Logged(r, fr, "", aug), fr.elem.n, "end", "")
                            EXCEPT !.stack = Pop(@)],
                        ex.out)
        Noted(r, fr, ac) ==
            [r EXCEPT !.log = Append(@, [op |-> "augment", comp |-> fr.elem.n,
                                         attrs |-> fr.elem.a, err |-> ac.err,
                                         aug |-> ac.invoked])]
        Augmented(r, fr, ac) ==
            IF ac.err # "" THEN FailComponent(Noted(r, fr, ac), ac.err)
            ELSE Executed(Noted(r, fr, ac), fr,
                          Execute(fr.tpl, [Augmented |-> ac.invoked,
                                           Props |-> AugmentedProps(fr.props, ac.invoked)]
                                              @@ Payload(fr, r.ctx, r.root)),
                          ac.invoked)
    IN /\ Running(c)
       /\ Top(call[c]).f = "comp" /\ Top(call[c]).pc = "exec"
       /\ UNCHANGED eng
       /\ call' = [call EXCEPT ![c] =
            Augmented(call[c], Top(call[c]),
                      applyComponentAugmenters(eng[call[c].e].cfg, Top(call[c]).elem.n))]

\* an error (or panic) travels up one frame: every caller returns it at once;
\* a renderComponent on the way fires its deferred end event
Propagate(c) ==
    LET r  == call[c]
    IN /\ r.pc = "run" /\ r.res # ""
       /\ UNCHANGED eng
       /\ call' = [call EXCEPT ![c] =
            IF r.stack = <<>> THEN [r EXCEPT !.pc = "done", !.bufs = <<>>]
            ELSE LET fr == Top(r)
                 IN IF fr.f = "comp"
                    THEN [Emit(r, fr.elem.n, "end", IF r.res = "panic" THEN "" ELSE r.err)
                             EXCEPT !.stack = Pop(@)]
                    ELSE [r EXCEPT !.stack = Pop(@)]]

\* the final pass left to the engine's option under either entry point
FinalTemplateEnabledByOption(entry, cfg) == cfg.finalTemplatePass

\* the enableFinalTemplate argument of applyPostProcessing: true in
\* ParseFileTemplate, h.cfg.finalTemplatePass in ParseFileContext
FinalTemplateEnabled(entry, cfg) ==
    entry = "ParseFileTemplate" \/ cfg.finalTemplatePass

\* applyPostProcessing on the expanded buffer
ApplyPost(c) ==
    LET r  == call[c]
        g  == eng[r.e]
        enableFinal == FinalTemplateEnabled(r.entry, g.cfg)
        pp == applyPostProcessing(g.cfg, r.funcs, r.cur, enableFinal)
    IN /\ r.pc = "post"
       /\ UNCHANGED eng
       /\ call' = [call EXCEPT ![c] =
            IF pp.err # ""
            THEN [r EXCEPT !.pc = "done", !.res = "err", !.err = pp.err,
                           !.ran = pp.ran, !.final = enableFinal, !.cur = <<>>,
                           !.trace = pp.trace]
            ELSE [r EXCEPT !.pc = "write", !.cur = pp.out, !.ran = pp.ran,
                           !.trace = pp.trace,
                           !.final = enableFinal]]

\* the single writer.Write(final) of the buffered path, skipped for a nil writer
WriteOut(c) ==
    LET r == call[c]
    IN /\ r.pc = "write"
       /\ UNCHANGED eng
       /\ call' = [call EXCEPT ![c] =
            [(IF r.wnil THEN r ELSE Write(r, 0, r.cur)) EXCEPT !.pc = "done", !.res = "ok"]]

(***************************************************************************)
(* Specification: one engine, built with any configuration, serving render *)
(* calls one after the other                                               *)
(***************************************************************************)
Init ==
    \E cfg \in Cfgs :
        /\ eng = <<NewHC(cfg)>>
        /\ call = <<IdleCall(1)>>

Next ==
    \/ \E entry \in EntryPoints, file \in FileIds, wnil \in BOOLEAN :
           StartRender(1, entry, file, wnil, Background)
    \/ ScanStep(1)
    \/ CompLoad(1)
    \/ CompSplit(1)
    \/ CompAttrs(1)
    \/ CompExec(1)
    \/ Propagate(1)
    \/ ApplyPost(1)
    \/ WriteOut(1)

Spec == Init /\ [][Next]_vars

(***************************************************************************)
(* Concurrent calls: loadComponentTemplate and getComponentSource step by  *)
(* step, every map access between the lock and the unlock that guard it    *)
(***************************************************************************)
\* sync.RWMutex: RLock waits for the writer, Lock for the writer and readers
CanRLock(mu) == mu.writer = 0

CanLock(mu) == mu.writer = 0 /\ mu.readers = {}

\* the stores taking the read lock
StoreLockShared(cache) == "RLock"

\* the lock taken around a store into cache: h.cache.mu.Lock()
StoreLock(cache) == "Lock"

At(c, pcs) == Running(c) /\ Top(call[c]).f = "comp" /\ Top(call[c]).pc \in pcs

\* renderComponent's pass-limit check, then key := h.cacheKey(state.ctx, name)
LoadBegin(c) ==
    LET Keyed(r, fr) ==
            SetTop([r EXCEPT !.maxDepth = IF fr.depth > @ THEN fr.depth ELSE @,
                             !.keyCalls = @ + KeyFuncCalls(eng[r.e].cfg)],
                   [fr EXCEPT !.key = cacheKey(eng[r.e].cfg, r.ctx, fr.elem.n),
                              !.pc = IF UsesTemplateCache(eng[r.e].cfg)
                                     THEN "entriesRLock" ELSE "sourcesRLock"])
        Begin(r, fr) ==
            IF PassLimitExceeded(fr.depth)
            THEN FailComponent([r EXCEPT !.rejectedAt = fr.depth], "exceeded passes")
            ELSE Keyed(r, fr)
    IN /\ At(c, {"load"})
       /\ UNCHANGED eng
       /\ call' = [call EXCEPT ![c] = Begin(call[c], Top(call[c]))]

\* h.cache.mu.RLock()
AcquireRead(c) ==
    /\ At(c, {"entriesRLock", "sourcesRLock"})
    /\ CanRLock(eng[call[c].e].mu)
    /\ eng' = [eng EXCEPT ![call[c].e].mu.readers = @ \cup {c}]
    /\ call' = [call EXCEPT ![c] =
          SetTop(@, [Top(@) EXCEPT !.pc = IF @ = "entriesRLock" THEN "entriesRead"
                                          ELSE "sourcesRead"])]

\* entry, ok := h.cache.entries[key]  /  src, ok := h.cache.sources[cacheKey]
ReadCache(c) ==
    LET Entry(g, r, fr) ==
            IF fr.key \in DOMAIN g.entries
            THEN SetTop(r, [fr EXCEPT !.pc = "entriesHit", !.tpl = g.entries[fr.key]])
            ELSE SetTop(r, [fr EXCEPT !.pc = "entriesMiss"])
        Source(g, r, fr, key) ==
            IF key \in DOMAIN g.sources
            THEN SetTop(r, [fr EXCEPT !.pc = "sourcesHit", !.src = g.sources[key]])
            ELSE SetTop(r, [fr EXCEPT !.pc = "sourcesMiss"])
        Read(g, r, fr) ==
            IF fr.pc = "entriesRead" THEN Entry(g, r, fr)
            ELSE Source(g, r, fr, sourceCacheKey(fr.elem.n))
    IN /\ At(c, {"entriesRead", "sourcesRead"})
       /\ UNCHANGED eng
       /\ call' = [call EXCEPT ![c] = Read(eng[call[c].e], call[c], Top(call[c]))]

\* RUnlock on the path of a hit only: a lookup that misses keeps the lock
RUnlockOnHit(mu, c, pc) ==
    IF pc \in {"entriesHit", "sourcesHit"} THEN [mu EXCEPT !.readers = @ \ {c}] ELSE mu

\* h.cache.mu.RUnlock() by call c, whose lookup ended at pc (hit or miss)
RUnlock(mu, c, pc) == [mu EXCEPT !.readers = @ \ {c}]

\* h.cache.mu.RUnlock(), and the return of a cached template or source
ReleaseRead(c) ==
    LET Released(r, fr) ==
            CASE fr.pc = "entriesHit"  ->
                   SetTop([r EXCEPT !.loads = @ + 1], [fr EXCEPT !.pc = "split"])
              [] fr.pc = "entriesMiss" -> SetTop(r, [fr EXCEPT !.pc = "sourcesRLock"])
              [] fr.pc = "sourcesHit"  -> SetTop(r, [fr EXCEPT !.pc = "parse"])
              [] OTHER                 -> SetTop(r, [fr EXCEPT !.pc = "file"])
    IN /\ At(c, {"entriesHit", "entriesMiss", "sourcesHit", "sourcesMiss"})
       /\ eng' = [eng EXCEPT ![call[c].e].mu = RUnlock(@, c, Top(call[c]).pc),
                             ![call[c].e].loaded =
                                 IF Top(call[c]).pc = "entriesHit"
                                 THEN @ \cup {Top(call[c]).elem.n} ELSE @,
                             ![call[c].e].keyed =
                                 IF Top(call[c]).pc = "entriesHit"
                                 THEN @ \cup {Returned(eng[call[c].e].cfg, call[c].ctx,
                                                    Top(call[c]).elem.n, FALSE)}
                                 ELSE @]
       /\ call' = [call EXCEPT ![c] = Released(call[c], Top(call[c]))]

\* content, source, err := h.readComponentFile(name)
ReadComponentFile(c) ==
    LET Read(r, fr, rd) ==
            IF rd.err # "" THEN FailComponent(r, rd.err)
            ELSE SetTop(r, [fr EXCEPT !.pc = "sourcesLock",
                                      !.src = [content |-> rd.content,
                                               source |-> rd.source]])
    IN /\ At(c, {"file"})
       /\ eng' = [eng EXCEPT ![call[c].e].reads =
                     IF readComponentFile(Top(call[c]).elem.n).err = ""
                     THEN Append(@, sourceCacheKey(Top(call[c]).elem.n)) ELSE @]
       /\ call' = [call EXCEPT ![c] =
             Read(call[c], Top(call[c]), readComponentFile(Top(call[c]).elem.n))]

\* h.cache.mu.Lock() in front of a store
AcquireWrite(c) ==
    LET Cache(fr) == IF fr.pc = "sourcesLock" THEN "sources" ELSE "entries"
        Acquire(g, fr) ==
            IF StoreLock(Cache(fr)) = "Lock"
            THEN /\ CanLock(g.mu)
                 /\ eng' = [eng EXCEPT ![call[c].e].mu.writer = c]
            ELSE /\ CanRLock(g.mu)
                 /\ eng' = [eng EXCEPT ![call[c].e].mu.readers = @ \cup {c}]
    IN /\ At(c, {"sourcesLock", "entriesLock"})
       /\ Acquire(eng[call[c].e], Top(call[c]))
       /\ call' = [call EXCEPT ![c] =
             SetTop(@, [Top(@) EXCEPT !.pc = IF @ = "sourcesLock" THEN "sourcesWrite"
                                             ELSE "entriesWrite"])]

\* h.cache.sources[cacheKey] = componentSource{...}  /
\* h.cache.entries[key] = cacheEntry{tpl: tpl}
WriteCache(c) ==
    LET Written(g, fr) ==
            IF fr.pc = "sourcesWrite"
            THEN [g EXCEPT !.sources = Put(@, sourceCacheKey(fr.elem.n), fr.src),
                           !.stored = @ \cup {<<"sources", sourceCacheKey(fr.elem.n)>>}]
            ELSE [g EXCEPT !.entries = Put(@, fr.key, fr.tpl),
                           !.stored = @ \cup {<<"entries", fr.key>>}]
    IN /\ At(c, {"sourcesWrite", "entriesWrite"})
       /\ eng' = [eng EXCEPT ![call[c].e] = Written(@, Top(call[c]))]
       /\ call' = [call EXCEPT ![c] =
             SetTop(@, [Top(@) EXCEPT !.pc = IF @ = "sourcesWrite" THEN "sourcesUnlock"
                                             ELSE "entriesUnlock"])]

\* h.cache.mu.Unlock(), and the return of the source or the template
ReleaseWrite(c) ==
    LET Released(r, fr) ==
            IF fr.pc = "sourcesUnlock" THEN SetTop(r, [fr EXCEPT !.pc = "parse"])
            ELSE SetTop([r EXCEPT !.loads = @ + 1], [fr EXCEPT !.pc = "split"])
    IN /\ At(c, {"sourcesUnlock", "entriesUnlock"})
       /\ eng' = [eng EXCEPT ![call[c].e].mu =
                     [readers |-> @.readers \ {c},
                      writer  |-> IF @.writer = c THEN 0 ELSE @.writer],
                             ![call[c].e].keyed =
                                 IF Top(call[c]).pc = "entriesUnlock"
                                 THEN @ \cup {Returned(eng[call[c].e].cfg, call[c].ctx,
                                                    Top(call[c]).elem.n, TRUE)}
                                 ELSE @]
       /\ call' = [call EXCEPT ![c] = Released(call[c], Top(call[c]))]

\* template.New(name).Funcs(h.componentFuncMap(state.funcs)).Parse(content)
Compile(c) ==
    LET Compiled(g, r, fr) ==
            IF UsesTemplateCache(g.cfg)
            THEN SetTop([r EXCEPT !.compiles = @ + 1],
                        [fr EXCEPT !.pc = "entriesLock",
                                   !.tpl = [name |-> fr.elem.n, body |-> fr.src.content.body,
                                            funcs |-> componentFuncMap(r.funcs)]])
            ELSE SetTop([r EXCEPT !.compiles = @ + 1, !.loads = @ + 1],
                        [fr EXCEPT !.pc = "split",
                                   !.tpl = [name |-> fr.elem.n, body |-> fr.src.content.body,
                                            funcs |-> componentFuncMap(r.funcs)]])
        Parsed(g, r, fr) ==
            IF ~ParseTemplate(fr.src.content, componentFuncMap(r.funcs))
            THEN FailComponent(r, "parse component")
            ELSE Compiled(g, r, fr)
    IN /\ At(c, {"parse"})
       /\ eng' = [eng EXCEPT ![call[c].e].loaded = @ \cup {Top(call[c]).elem.n},
                             ![call[c].e].keyed =
                                 IF /\ ~UsesTemplateCache(eng[call[c].e].cfg)
                                    /\ ParseTemplate(Top(call[c]).src.content,
                                                     componentFuncMap(call[c].funcs))
                                 THEN @ \cup {Returned(eng[call[c].e].cfg, call[c].ctx,
                                                    Top(call[c]).elem.n, TRUE)}
                                 ELSE @]
       /\ call' = [call EXCEPT ![c] = Parsed(eng[call[c].e], call[c], Top(call[c]))]

ConcCfgs == {[BaseCfg EXCEPT !.funcMapProvider = pr] : pr \in BOOLEAN}

ConcFileIds == {<<"two", 0>>, <<"case", 0>>, <<"dynattr", 0>>, <<"notfound", 0>>}

InitConc ==
    \E cfg \in ConcCfgs :
        /\ eng = <<NewHC(cfg)>>
        /\ call = <<IdleCall(1), IdleCall(1)>>

NextConc ==
    \/ \E c \in 1..2, file \in ConcFileIds :
           StartRender(c, "ParseFileContext", file, FALSE, Background)
    \/ \E c \in 1..2 : ScanStep(c)
    \/ \E c \in 1..2 : LoadBegin(c)
    \/ \E c \in 1..2 : AcquireRead(c)
    \/ \E c \in 1..2 : ReadCache(c)
    \/ \E c \in 1..2 : ReleaseRead(c)
    \/ \E c \in 1..2 : ReadComponentFile(c)
    \/ \E c \in 1..2 : AcquireWrite(c)
    \/ \E c \in 1..2 : WriteCache(c)
    \/ \E c \in 1..2 : ReleaseWrite(c)
    \/ \E c \in 1..2 : Compile(c)
    \/ \E c \in 1..2 : CompSplit(c)
    \/ \E c \in 1..2 : CompAttrs(c)
    \/ \E c \in 1..2 : CompExec(c)
    \/ \E c \in 1..2 : Propagate(c)
    \/ \E c \in 1..2 : ApplyPost(c)
    \/ \E c \in 1..2 : WriteOut(c)

SpecConc == InitConc /\ [][NextConc]_vars

\* the steps of call c from a call of RLock or Lock to the unlock after it
LockStep(c) ==
    \/ AcquireRead(c) \/ ReadCache(c) \/ ReleaseRead(c)
    \/ AcquireWrite(c) \/ WriteCache(c) \/ ReleaseWrite(c)

\* the goroutine of a call that holds the lock or asks for it runs whenever
\* it can run from some time on: the scheduler leaves no runnable goroutine
\* aside for ever, and sync.RWMutex wakes a goroutine blocked in RLock or
\* Lock once the lock is free for it
SpecConcFair == SpecConc /\ \A c \in 1..2 : WF_vars(LockStep(c))

(***************************************************************************)
(* Specification of component resolution: one call on an engine with       *)
(* attribute rules, augmenters and possibly a provider, over the documents *)
(* that fail at each step of renderComponent and those that use attributes *)
(***************************************************************************)
Require(names) == [opt |-> "require", names |-> names]

Allow(names) == [opt |-> "allow", names |-> names]

Others == [opt |-> "others", names |-> {}]

\* the WithAttrRules options an engine is built with
RuleSets ==
    { <<>>,
      << [component |-> "L", opts |-> <<Require({"Msg"})>>] >>,
      << [component |-> "l", opts |-> <<Require({"Msg"}), Others>>] >>,
      << [component |-> "L", opts |-> <<Require({"Msg", "Id"}), Allow({"Extra", ""})>>] >>,
      << [component |-> "L", opts |-> <<Allow({"Msg"})>>],
         [component |-> "",  opts |-> <<Require({"Id"})>>],
         [component |-> "P", opts |-> <<Require({"Id"})>>] >> }

\* the WithComponentAugmenter options an engine is built with
Augment(component, augmenter) == [component |-> component, augmenter |-> augmenter]

\* the WithComponentAugmenter options an engine is built with
AugmenterSets ==
    { <<>>,
      << Augment("*", "w1") >>,
      << Augment("L", "n1"), Augment("", "w1"), Augment("P", ""), Augment("*", "w2"),
         Augment("l", "n2") >>,
      << Augment("*", "w1"), Augment("", "wfail"), Augment("*", "w2"),
         Augment("L", "n1") >>,
      << Augment("L", "n1"), Augment("l", "nfail"), Augment("L", "n2"),
         Augment("*", "w1") >> }

ComponentCfgs ==
    { [BaseCfg EXCEPT !.streamingWrites     = sw,
                      !.funcMapProvider     = pr,
                      !.attrRules           = rules,
                      !.augmenterOptions    = augs] :
      sw \in BOOLEAN, pr \in BOOLEAN, rules \in RuleSets, augs \in AugmenterSets }

ComponentFileIds ==
    {<<n, 0>> : n \in {"leaf", "two", "wrap", "self", "execfail", "compfail",
                       "notfound", "childfail", "badattr", "opencomp", "voidopen",
                       "dynattr", "attrcase", "attrmore", "attrless", "attrkids"}}

InitComponents ==
    \E cfg \in ComponentCfgs :
        /\ eng = <<NewHC(cfg)>>
        /\ call = <<IdleCall(1)>>

NextComponents ==
    \/ \E file \in ComponentFileIds :
           /\ call[1].pc = "idle"
           /\ StartRender(1, "ParseFileContext", file, FALSE, Background)
    \/ ScanStep(1)
    \/ CompLoad(1)
    \/ CompSplit(1)
    \/ CompAttrs(1)
    \/ CompExec(1)
    \/ Propagate(1)
    \/ ApplyPost(1)
    \/ WriteOut(1)

SpecComponents == InitComponents /\ [][NextComponents]_vars

(***************************************************************************)
(* Specification of cache keys: renders one after the other on one engine, *)
(* each with a context that carries a locale value                         *)
(***************************************************************************)
\* the values the context key holds; "" is a context without the value
Locales == {"", "en", "EN", " fr", "fr"}

\* WithLocaleCacheKeysFromValue(key, fallback) and WithCacheKeyFunc
LocaleCfgs ==
    { [BaseCfg EXCEPT !.localeExtractor = ex.on,
                      !.localeFallback  = ex.fallback,
                      !.cacheKeyFunc    = kf,
                      !.funcMapProvider = pr] :
      ex \in {[on |-> FALSE, fallback |-> ""], [on |-> TRUE, fallback |-> ""],
               [on |-> TRUE, fallback |-> "en"]},
      kf \in BOOLEAN, pr \in BOOLEAN }

LocaleFileIds ==
    {<<"leaf", 0>>, <<"case", 0>>, <<"notfound", 0>>, <<"wrap", 0>>, <<"compfail", 0>>}

InitLocale ==
    \E cfg \in LocaleCfgs :
        /\ eng = <<NewHC(cfg)>>
        /\ call = <<IdleCall(1)>>

NextLocale ==
    \/ \E file \in LocaleFileIds, locale \in Locales :
           StartRender(1, "ParseFileContext", file, FALSE, [locale |-> locale])
    \/ ScanStep(1)
    \/ CompLoad(1)
    \/ CompSplit(1)
    \/ CompAttrs(1)
    \/ CompExec(1)
    \/ Propagate(1)
    \/ ApplyPost(1)
    \/ WriteOut(1)

SpecLocale == InitLocale /\ [][NextLocale]_vars

(***************************************************************************)
(* Specification of the render pipeline: one buffered call on an engine    *)
(* with or without final pass, pipelines and post-processors               *)
(***************************************************************************)
\* the pipelines and post-processors left in the configuration by
\* WithPagePipeline (never an empty pipeline) and WithPostProcessor
PipelineOptions ==
    StageOptions \cup
    { [pagePipelines |-> << <<"a">>, <<"nil", "b">> >>, postProcessors |-> <<"c", "nil">>],
      [pagePipelines |-> << <<"a", "nil", "b">> >>, postProcessors |-> <<"c", "fail2", "fail">>],
      [pagePipelines |-> << <<"a">>, <<"fail", "b">>, <<"fail2">> >>, postProcessors |-> <<"c">>],
      [pagePipelines |-> << <<"a", "b">> >>, postProcessors |-> <<>>] }

StageCfgs ==
    { [BaseCfg EXCEPT !.streamingWrites   = sw,
                      !.finalTemplatePass = fp,
                      !.pagePipelines     = so.pagePipelines,
                      !.postProcessors    = so.postProcessors] :
      sw \in BOOLEAN, fp \in BOOLEAN, so \in PipelineOptions }

StageFileIds ==
    {<<n, 0>> : n \in {"plain", "tmpl", "badtmpl", "leaf", "wrap", "execfail", "empty",
                       "tmplcomp"}}
    \cup {<<"missing", 0>>}

InitStages ==
    \E cfg \in StageCfgs :
        /\ eng = <<NewHC(cfg)>>
        /\ call = <<IdleCall(1)>>

NextStages ==
    \/ \E entry \in EntryPoints, file \in StageFileIds, wnil \in BOOLEAN :
           /\ call[1].pc = "idle"
           /\ StartRender(1, entry, file, wnil, Background)
    \/ ScanStep(1)
    \/ CompLoad(1)
    \/ CompSplit(1)
    \/ CompAttrs(1)
    \/ CompExec(1)
    \/ Propagate(1)
    \/ ApplyPost(1)
    \/ WriteOut(1)

SpecStages == InitStages /\ [][NextStages]_vars

(***************************************************************************)
(* Specification of the root data: one caller renders twice with the same  *)
(* data value                                                              *)
(***************************************************************************)
Message == "Message" :> [v |-> "original"]

OwnCtx == "Ctx" :> [v |-> "mine"]

\* the data values of the callers: nil, map[string]any and map[string]string
\* with and without a Ctx entry, by value and behind a pointer, nil pointers,
\* a map with integer keys and a struct
DataValues ==
    {NilData}
    \cup { [t |-> t, ptr |-> ptr, null |-> FALSE, m |-> m] :
             t \in {"map", "strmap"}, ptr \in BOOLEAN,
             m \in {EmptyMap, Message, Message @@ OwnCtx} }
    \cup { [t |-> t, ptr |-> TRUE, null |-> TRUE, m |-> EmptyMap] : t \in {"map", "struct"} }
    \cup { [t |-> "intmap", ptr |-> FALSE, null |-> FALSE, m |-> "1" :> [v |-> "x"]],
           [t |-> "struct", ptr |-> FALSE, null |-> FALSE, m |-> EmptyMap] }

DataCfgs == { [BaseCfg EXCEPT !.dataAugmenter = a] : a \in {"", "defaults", "nil"} }

DataFileIds == {<<n, 0>> : n \in {"plain", "leaf", "execfail", "empty"}}

InitData ==
    \E cfg \in DataCfgs, data \in DataValues :
        /\ eng = <<NewHC(cfg)>>
        /\ call = <<[IdleCall(1) EXCEPT !.data = data, !.supplied = data]>>

NextData ==
    \/ \E entry \in EntryPoints, file \in DataFileIds :
           StartRender(1, entry, file, FALSE, Background)
    \/ ScanStep(1)
    \/ CompLoad(1)
    \/ CompSplit(1)
    \/ CompAttrs(1)
    \/ CompExec(1)
    \/ Propagate(1)
    \/ ApplyPost(1)
    \/ WriteOut(1)

SpecData == InitData /\ [][NextData]_vars

(***************************************************************************)
(* Specification of the nil sink: two engines of one configuration; call 1 *)
(* renders a document into a sink, call 2 the same document, through the   *)
(* same entry point, with a nil writer                                     *)
(***************************************************************************)
SinkCfgs ==
    {cfg \in Cfgs : ~cfg.funcMapProvider}
        \cup {cfg \in ComponentCfgs : ~cfg.funcMapProvider}

SinkFileIds ==
    FileIds \cup {<<n, 0>> : n \in {"dynattr", "attrcase", "attrmore", "attrless", "attrkids"}}

InitSink ==
    \E cfg \in SinkCfgs :
        /\ eng = <<NewHC(cfg), NewHC(cfg)>>
        /\ call = <<IdleCall(1), IdleCall(2)>>

NextSink ==
    \/ \E entry \in EntryPoints, file \in SinkFileIds :
           /\ call[1].pc = "idle" /\ call[2].pc = "idle"
           /\ StartRender(1, entry, file, FALSE, Background)
    \/ /\ call[1].pc = "done" /\ call[2].pc = "idle"
       /\ StartRender(2, call[1].entry, call[1].file, TRUE, Background)
    \/ \E c \in 1..2 : ScanStep(c)
    \/ \E c \in 1..2 : CompLoad(c)
    \/ \E c \in 1..2 : CompSplit(c)
    \/ \E c \in 1..2 : CompAttrs(c)
    \/ \E c \in 1..2 : CompExec(c)
    \/ \E c \in 1..2 : Propagate(c)
    \/ \E c \in 1..2 : ApplyPost(c)
    \/ \E c \in 1..2 : WriteOut(c)

SpecSink == InitSink /\ [][NextSink]_vars

(***************************************************************************)
(* Specification of attribute evaluation: pages whose component carries    *)
(* one of the attribute expressions                                        *)
(***************************************************************************)
AttrCfgs == { [BaseCfg EXCEPT !.funcMapProvider = pr] : pr \in BOOLEAN }

AttrFileIds ==
    {<<"attrval", i>> : i \in 1..Len(AttrExprs)} \cup {<<"badattr", 0>>, <<"execfail", 0>>}

InitAttrs ==
    \E cfg \in AttrCfgs :
        /\ eng = <<NewHC(cfg)>>
        /\ call = <<IdleCall(1)>>

NextAttrs ==
    \/ \E entry \in EntryPoints, file \in AttrFileIds :
           StartRender(1, entry, file, FALSE, Background)
    \/ ScanStep(1)
    \/ CompLoad(1)
    \/ CompSplit(1)
    \/ CompAttrs(1)
    \/ CompExec(1)
    \/ Propagate(1)
    \/ ApplyPost(1)
    \/ WriteOut(1)

SpecAttrs == InitAttrs /\ [][NextAttrs]_vars

(***************************************************************************)
(* Specification of components with child content: one engine, one render  *)
(* after the other                                                         *)
(***************************************************************************)
ChildFileIds ==
    {<<n, 0>> : n \in {"leaf", "wrap", "childfail", "attrkids", "attrcase", "attrgt",
                       "attrsl", "selfgt", "voidopen", "two", "attrdup", "emptykid"}}
        \cup {<<"nest", d>> : d \in 1..2}

InitChildren ==
    /\ eng = <<NewHC(BaseCfg)>>
    /\ call = <<IdleCall(1)>>

NextChildren ==
    \/ \E entry \in EntryPoints, file \in ChildFileIds, wnil \in BOOLEAN :
           StartRender(1, entry, file, wnil, Background)
    \/ ScanStep(1)
    \/ CompLoad(1)
    \/ CompSplit(1)
    \/ CompAttrs(1)
    \/ CompExec(1)
    \/ Propagate(1)
    \/ ApplyPost(1)
    \/ WriteOut(1)

SpecChildren == InitChildren /\ [][NextChildren]_vars

(***************************************************************************)
(* Specification of splitComponentBody on the bytes of one element         *)
(***************************************************************************)
\* the elements handed to splitComponentBody, each put together from its
\* open tag, its child bytes and its close tag; the component is named P
SplitInputs ==
    LET Tag(text, bracket, selfClosing) ==
            [text |-> text, bracket |-> bracket, selfClosing |-> selfClosing]
        opens ==
            {Tag(<<"<", "P", ">">>, TRUE, FALSE),
             Tag(<<"<", "P", " ", ">">>, TRUE, FALSE),
             Tag(<<"<", "P", " ", "a", "=", "'", "x", "'", ">">>, TRUE, FALSE),
             Tag(<<"<", "P", " ", "a", "=", "'", ">", "'", ">">>, TRUE, FALSE),
             Tag(<<"<", "P", " ", "a", "=", "'", "/", ">", "'", ">">>, TRUE, FALSE)}
        selfs ==
            {Tag(<<"<", "P", "/", ">">>, TRUE, TRUE),
             Tag(<<"<", "P", " ", "/", ">">>, TRUE, TRUE),
             Tag(<<"<", "P", "/", " ", ">">>, TRUE, TRUE),
             Tag(<<"<", "P", " ", "a", "=", "'", ">", "'", "/", ">">>, TRUE, TRUE),
             Tag(<<"<", "P">>, FALSE, FALSE)}
        kids ==
            {<<>>, <<"x">>, <<"<", "d", ">", "y", "<", "/", "d", ">">>,
             <<"<", "P", "x", ">", "z", "<", "/", "P", "x", ">">>}
        closes ==
            {[text |-> <<"<", "/", "P", ">">>, matching |-> TRUE],
             [text |-> <<"<", "/", "P", " ", ">">>, matching |-> TRUE],
             [text |-> <<"<", "/", "d", ">">>, matching |-> FALSE],
             [text |-> <<>>, matching |-> FALSE]}
    IN {[open |-> o, kids |-> k, close |-> cl] : o \in opens, k \in kids, cl \in closes}
           \cup {[open |-> o, kids |-> <<>>, close |-> [text |-> <<>>, matching |-> FALSE]] :
                     o \in selfs}

\* splitComponentBody(raw, "P") on the bytes of one input
SplitBody(c) ==
    LET r == call[c]
        Split(sb) ==
            [r EXCEPT !.pc = "done", !.children = sb.children,
                      !.selfClosing = sb.selfClosing, !.err = sb.err]
    IN /\ r.pc = "split"
       /\ UNCHANGED eng
       /\ call' = [call EXCEPT ![c] =
             Split(splitComponentBodyBytes(r.input.open.text \o r.input.kids
                                               \o r.input.close.text, "P"))]

InitSplit ==
    \E in \in SplitInputs :
        /\ eng = <<NewHC(BaseCfg)>>
        /\ call = <<[pc |-> "split", input |-> in, children |-> <<>>,
                     selfClosing |-> FALSE, err |-> ""]>>

NextSplit == SplitBody(1)

SpecSplit == InitSplit /\ [][NextSplit]_vars

(***************************************************************************)
(* Specification of the pass-based engine: ParseFile on one engine         *)
(***************************************************************************)
\* ParseFile of the pass-based engine up to the loop of renderAll
ParseFileOnce(c, file, wnil) ==
    LET e  == call[c].e
        rf == readFile(file)
        r0 == [IdleCall(e) EXCEPT !.entry = "ParseFile", !.file = file, !.wnil = wnil]
    IN /\ call[c].pc \in {"idle", "done"}
       /\ eng[e].renders < MaxRenders
       /\ eng' = [eng EXCEPT ![e].renders = @ + 1]
       /\ call' = [call EXCEPT ![c] =
             IF rf.err # "" THEN [r0 EXCEPT !.pc = "done", !.res = "err", !.err = rf.err]
             ELSE IF Len(rf.raw) = 0
             THEN [r0 EXCEPT !.pc = "done", !.res = "err", !.err = "file is empty"]
             ELSE [r0 EXCEPT !.pc = "pass", !.cur = rf.raw]]

\* renderAll: one iteration of its loop, or the exit after the last
renderAll(c) ==
    LET r == call[c]
        Passed(p) ==
            /\ eng' = [eng EXCEPT ![r.e] = p.g]
            /\ call' = [call EXCEPT ![c] =
                  IF p.err = "panic" THEN [r EXCEPT !.pc = "done", !.res = "panic"]
                  ELSE IF p.err # ""
                  THEN [r EXCEPT !.pc = "done", !.res = "err", !.err = p.err]
                  ELSE IF ~p.changed THEN [r EXCEPT !.pc = "write", !.cur = p.out]
                  ELSE [r EXCEPT !.cur = p.out, !.passes = @ + 1]]
    IN /\ r.pc = "pass"
       /\ IF r.passes >= maxComponentPasses
          THEN /\ UNCHANGED eng
               /\ call' = [call EXCEPT ![c] =
                     [r EXCEPT !.pc = "done", !.res = "err", !.err = "exceeded passes"]]
          ELSE Passed(replaceOnce(eng[r.e], r.cur))

\* the documents given to the pass-based engine; k of <<"chain", k>> is the
\* number of passes that replace something
PassFileIds ==
    {<<"chain", k>> : k \in 1..ChainLen}
        \cup {<<n, 0>> : n \in {"empty", "plain", "leaf", "two", "wrap", "self", "mutual",
                                "execfail", "compfail", "notfound", "childfail",
                                "unclosed", "void"}}
        \cup {<<"nest", d>> : d \in 1..3} \cup {<<"missing", 0>>}

InitPasses ==
    /\ eng = <<NewHC(BaseCfg)>>
    /\ call = <<IdleCall(1)>>

NextPasses ==
    \/ \E file \in PassFileIds, wnil \in BOOLEAN : ParseFileOnce(1, file, wnil)
    \/ renderAll(1)
    \/ WriteOut(1)

SpecPasses == InitPasses /\ [][NextPasses]_vars

(***************************************************************************)
(* Specification of deep expansion: an engine without final pass, stages   *)
(* or provider renders the documents that recurse or nest deeply           *)
(***************************************************************************)
DeepCfgs ==
    {cfg \in Cfgs : /\ ~cfg.finalTemplatePass /\ ~cfg.funcMapProvider
                    /\ cfg.pagePipelines = <<>> /\ cfg.postProcessors = <<>>}

InitDeep ==
    \E cfg \in DeepCfgs :
        /\ eng = <<NewHC(cfg)>>
        /\ call = <<IdleCall(1)>>

NextDeep ==
    \/ \E entry \in EntryPoints, file \in DeepFileIds : StartRender(1, entry, file, FALSE, Background)
    \/ ScanStep(1)
    \/ CompLoad(1)
    \/ CompSplit(1)
    \/ CompAttrs(1)
    \/ CompExec(1)
    \/ Propagate(1)
    \/ ApplyPost(1)
    \/ WriteOut(1)

SpecDeep == InitDeep /\ [][NextDeep]_vars

(***************************************************************************)
(* Specification of the two modes side by side: engine 1 buffers, engine 2 *)
(* streams, nothing else differs; call 1 renders a document to the end and *)
(* then call 2 renders the same document                                   *)
(***************************************************************************)
ModeCfgs ==
    {cfg \in Cfgs : /\ ~cfg.streamingWrites /\ ~cfg.finalTemplatePass
                    /\ cfg.pagePipelines = <<>> /\ cfg.postProcessors = <<>>}

ModeFileIds == FileIds \cup DeepFileIds

InitModes ==
    \E cfg \in ModeCfgs :
        /\ eng = <<NewHC(cfg), NewHC([cfg EXCEPT !.streamingWrites = TRUE])>>
        /\ call = <<IdleCall(1), IdleCall(2)>>

NextModes ==
    \/ \E file \in ModeFileIds :
           /\ call[1].pc = "idle" /\ call[2].pc = "idle"
           /\ StartRender(1, "ParseFileContext", file, FALSE, Background)
    \/ /\ call[1].pc = "done" /\ call[2].pc = "idle"
       /\ StartRender(2, "ParseFileContext", call[1].file, FALSE, Background)
    \/ \E c \in 1..2 : ScanStep(c)
    \/ \E c \in 1..2 : CompLoad(c)
    \/ \E c \in 1..2 : CompSplit(c)
    \/ \E c \in 1..2 : CompAttrs(c)
    \/ \E c \in 1..2 : CompExec(c)
    \/ \E c \in 1..2 : Propagate(c)
    \/ \E c \in 1..2 : ApplyPost(c)
    \/ \E c \in 1..2 : WriteOut(c)

SpecModes == InitModes /\ [][NextModes]_vars

(***************************************************************************)
(* Properties                                                              *)
(***************************************************************************)
Done(c) == call[c].pc = "done"

Cfg(c) == eng[call[c].e].cfg

IsPrefix(s, t) == Len(s) <= Len(t) /\ SubSeq(t, 1, Len(s)) = s

\* the document the call was given, as read from the file system
Document(c) == readFile(call[c].file).raw

\* no start tag of the markup names a component
ZeroCustomTags(input) ==
    \A i \in 1..Len(input) : input[i].k \in {"open", "self"} => ~isComponentName(input[i].n)

\* number of component executions that returned without error
Completed(c) ==
    Cardinality({i \in 1..Len(call[c].events) :
                    call[c].events[i].stage = "end" /\ call[c].events[i].err = ""})

\* C1: every top-level render call ends by returning output or returning an
\* error.  (Every call does end, within the depth bound; one ends in a
\* run-time panic, which is neither.)
RenderReturnsOutputOrError ==
    \A c \in DOMAIN call : Done(c) => call[c].res \in {"ok", "err"}

\* C2: a component that re-emits itself (directly, or through another
\* component, or through child content of its own output) fails with the
\* pass-limit error in either mode; the rejected level is the seventeenth,
\* the sixteenth was entered, and a component re-emitting itself at the top
\* level completed exactly maxComponentPasses executions before that
PassLimitAfterSixteenPasses ==
    \A c \in DOMAIN call :
        (Done(c) /\ call[c].file[1] \in RecursiveNames) =>
            /\ call[c].res = "err"
            /\ call[c].err = "exceeded passes"
            /\ call[c].rejectedAt = maxComponentPasses + 1
            /\ call[c].maxDepth = maxComponentPasses
            /\ call[c].file[1] \in {"self", "mutual"} =>
                   Completed(c) = maxComponentPasses

SelfRecursionRejected ==
    \E c \in DOMAIN call :
        /\ Done(c) /\ call[c].file[1] = "self" /\ call[c].stream
        /\ call[c].err = "exceeded passes" /\ Completed(c) = maxComponentPasses

\* C3: components nested in one another's child content to any depth
\* d <= maxComponentPasses render successfully
NestingWithinLimitRenders ==
    \A c \in DOMAIN call :
        (Done(c) /\ call[c].file[1] = "nest" /\ call[c].file[2] <= maxComponentPasses) =>
            call[c].res = "ok"

\* C4: a non-empty document with zero custom tags is expanded to itself
NoCustomTagsUnchanged ==
    \A c \in DOMAIN call :
        (Done(c) /\ Document(c) # <<>> /\ ZeroCustomTags(Document(c))) =>
            /\ call[c].expanded
            /\ call[c].rendered = Document(c)

\* C5: on the same document and configuration the streaming call fails
\* exactly when the buffered call fails, and when both succeed the bytes the
\* sink received are the same
ModesAgree ==
    (Done(1) /\ Done(2)) =>
        /\ Document(2) # <<>> => (~call[1].stream /\ call[2].stream)
        /\ (call[1].res = "ok") <=> (call[2].res = "ok")
        /\ call[1].res = "ok" => Flatten(call[2].sink) = Flatten(call[1].sink)

ModesAgreeOnSeveralWrites ==
    /\ Done(1) /\ Done(2)
    /\ call[1].res = "ok" /\ call[2].res = "ok"
    /\ Len(call[1].sink) = 1 /\ Len(call[2].sink) > 1
    /\ call[2].loads > 1

\* the conditions under which ParseFileContext may not stream
MustBuffer(c) ==
    \/ call[c].entry = "ParseFileTemplate"
    \/ ~Cfg(c).streamingWrites
    \/ Cfg(c).finalTemplatePass
    \/ Cfg(c).pagePipelines # <<>>
    \/ Cfg(c).postProcessors # <<>>

\* C6: when streaming is not enabled, or a final pass, pipeline or
\* post-processor is configured, or the call is ParseFileTemplate, nothing
\* reaches the sink before the call completes and a successful call with a
\* sink makes exactly one write
StreamingOnlyWhenUnprocessed ==
    \A c \in DOMAIN call :
        (call[c].pc # "idle" /\ MustBuffer(c)) =>
            /\ ~Done(c) => call[c].sink = <<>>
            /\ Len(call[c].sink) <= 1
            /\ (Done(c) /\ call[c].res = "ok" /\ ~call[c].wnil) => Len(call[c].sink) = 1

FallsBackWithFinalPass ==
    \E c \in DOMAIN call :
        /\ Done(c) /\ call[c].res = "ok" /\ call[c].entry = "ParseFileContext"
        /\ Cfg(c).streamingWrites /\ Cfg(c).finalTemplatePass /\ ~call[c].wnil
        /\ call[c].file[1] = "wrap" /\ Len(call[c].sink) = 1

\* what the streaming call has written is a prefix of the output of the
\* buffered call on the same document
StreamedIsPrefixOfFinal ==
    (Done(1) /\ call[1].res = "ok" /\ call[2].stream) =>
        IsPrefix(Flatten(call[2].sink), Flatten(call[1].sink))

\* one step of a streaming call only appends to the sink, and appends nothing
\* once the call has failed
StreamingStep ==
    \A c \in DOMAIN call :
        (call[c].stream /\ call'[c].stream) =>
            /\ IsPrefix(call[c].sink, call'[c].sink)
            /\ call[c].res \notin {"", "ok"} => call'[c].sink = call[c].sink

\* C7: streaming writes are in document order and never speculative: at
\* every moment the bytes written are a prefix of the final output, written
\* bytes stay written, and nothing is written after a failure
StreamingWritesInOrder == []StreamedIsPrefixOfFinal /\ [][StreamingStep]_vars

FailedMidStream ==
    /\ Done(2) /\ call[2].stream /\ call[2].res = "err"
    /\ call[2].sink # <<>>

\* C8: a buffered call writes nothing before it completes, nothing at all
\* when expansion or any post-processing stage fails, and on success exactly
\* one write carrying the post-processed bytes of the whole expansion
BufferedIsAtomic ==
    \A c \in DOMAIN call :
        (call[c].pc # "idle" /\ ~call[c].stream) =>
            /\ ~Done(c) => call[c].sink = <<>>
            /\ call[c].res # "ok" => call[c].sink = <<>>
            /\ (Done(c) /\ call[c].res = "ok") =>
                   call[c].sink =
                       IF call[c].wnil THEN <<>>
                       ELSE <<applyPostProcessing(Cfg(c), call[c].funcs, call[c].rendered,
                                                  call[c].final).out>>

StageFailureWritesNothing ==
    \E c \in DOMAIN call :
        /\ Done(c) /\ ~call[c].stream /\ ~call[c].wnil
        /\ call[c].expanded /\ call[c].loads > 0
        /\ call[c].res = "err" /\ call[c].err = "stage failed"
        /\ call[c].sink = <<>>

\* C9 as stated: the provider is invoked exactly once per top-level call
ProviderOncePerCall ==
    \A e \in DOMAIN eng :
        eng[e].cfg.funcMapProvider => eng[e].providerCalls = eng[e].renders

\* C9: the provider is invoked exactly once per top-level call that reads a
\* non-empty root document, whatever the number of components, and not at
\* all by a call that fails on a missing or empty document
ProviderOncePerPreparedCall ==
    \A e \in DOMAIN eng :
        eng[e].providerCalls =
            IF eng[e].cfg.funcMapProvider THEN eng[e].renders - eng[e].aborted ELSE 0

ProviderOnceForSeveralComponents ==
    \E c \in DOMAIN call :
        /\ Done(c) /\ Cfg(c).funcMapProvider /\ call[c].loads > 1
        /\ eng[call[c].e].renders = 2 /\ eng[call[c].e].aborted = 1
        /\ eng[call[c].e].providerCalls = 1

NoDuplicates(q) == \A i, j \in 1..Len(q) : q[i] = q[j] => i = j

\* C10: with a provider the compiled-template cache stays empty and every
\* component occurrence that loads is compiled by that load, while each
\* component source is read from the file system once and kept
ProviderBypassesTemplateCache ==
    \A c \in DOMAIN call :
        Cfg(c).funcMapProvider =>
            /\ eng[call[c].e].entries = EmptyMap
            /\ call[c].compiles = call[c].loads
            /\ NoDuplicates(eng[call[c].e].reads)
            /\ DOMAIN eng[call[c].e].sources =
                   {eng[call[c].e].reads[i] : i \in 1..Len(eng[call[c].e].reads)}
            /\ call[c].loads > 0 => eng[call[c].e].sources # EmptyMap

RecompiledFromCachedSource ==
    \E c \in DOMAIN call :
        /\ Done(c) /\ Cfg(c).funcMapProvider /\ call[c].res = "ok"
        /\ call[c].compiles = 2 /\ eng[call[c].e].renders = 2
        /\ Len(eng[call[c].e].reads) = 1

\* results of the functions NewHC was given (WithFuncMap) and of forwardAttrs
StaticResults ==
    {"forwardAttrs"} \cup {BaseCfg.funcMap[n] : n \in DOMAIN BaseCfg.funcMap}

\* results of the functions the templates and registries a call holds can run
Reachable(c) ==
    {call[c].funcs[n] : n \in DOMAIN call[c].funcs} \cup
    UNION {{call[c].stack[i].tpl.funcs[n] : n \in DOMAIN call[c].stack[i].tpl.funcs} :
              i \in 1..Len(call[c].stack)}

\* C11: calls that share an engine are isolated in their function sets:
\* whatever a component template or attribute expression of a call executes,
\* or could execute through the registry and templates the call holds, is a
\* static function or a function the provider produced for this very call,
\* never one produced for a concurrent or an earlier call
FunctionSetsIsolated ==
    \A c \in DOMAIN call :
        /\ call[c].executed \subseteq StaticResults \cup call[c].provided
        /\ Reachable(c) \subseteq StaticResults \cup call[c].provided

ConcurrentCallsRunOwnFunctions ==
    /\ call[1].pc = "run" /\ call[2].pc = "run"
    /\ call[1].provided # {} /\ call[2].provided # {}
    /\ call[1].provided # call[2].provided
    /\ call[1].executed = call[1].provided
    /\ call[2].executed = call[2].provided

\* C12: a render mutates no engine state but the two caches: the static
\* function registry, the attribute policies, the augmenters, the pipelines,
\* the post-processors and every other configured option are after each step
\* of a call what they were before it; merging the provider's output writes
\* a clone, never the static registry
EngineConfigUnchanged ==
    [][\A e \in DOMAIN eng : eng'[e].cfg = eng[e].cfg]_vars

RenderedWithProviderAndPolicies ==
    /\ Done(1) /\ call[1].res = "ok"
    /\ Cfg(1).funcMapProvider /\ call[1].executed = call[1].provided
    /\ call[1].provided # {}
    /\ DOMAIN Cfg(1).attrPolicies # {} /\ DOMAIN Cfg(1).componentAugmenters # {}
    /\ DOMAIN eng[1].sources # {}
    /\ Cfg(1).funcMap = BaseCfg.funcMap

\* the locale a render resolves to: the value trimmed, the fallback in place
\* of an empty one, lower-cased
ResolvedLocale(cfg, locale) ==
    ToLower(IF TrimSpace(locale) = "" THEN cfg.localeFallback ELSE TrimSpace(locale))

SourceCachePerLowerCasedName ==
    \A e \in DOMAIN eng :
        /\ DOMAIN eng[e].sources = {ToLower(n) : n \in eng[e].loaded}
        /\ Cardinality(DOMAIN eng[e].sources)
              = Cardinality({ToLower(n) : n \in eng[e].loaded})
        /\ Len(eng[e].reads) = Cardinality(DOMAIN eng[e].sources)
        /\ \A i \in 1..Len(eng[e].reads) : eng[e].reads[i] \in DOMAIN eng[e].sources

OneSourceForTwoLocalesAndSpellings ==
    /\ Done(1) /\ call[1].res = "ok" /\ eng[1].renders = 2
    /\ eng[1].loaded = {"Ab", "AB"}
    /\ {r.locale : r \in eng[1].keyed} = {"en", "fr"}
    /\ Cardinality(DOMAIN eng[1].entries) = 2
    /\ DOMAIN eng[1].sources = {"ab"}
    /\ eng[1].reads = <<"ab">>

\* positions of a call between a lock and the unlock that follows it
ReadPcs == {"entriesRead", "sourcesRead"}

WritePcs == {"entriesWrite", "sourcesWrite"}

RECURSIVE OpenAfter(_, _, _)
\* the components begun and not yet ended after events[i..], open being
\* those before; <<"unpaired">> when an end event does not end the component
\* begun last
OpenAfter(events, i, open) ==
    IF i > Len(events) THEN open
    ELSE IF events[i].stage = "begin"
    THEN OpenAfter(events, i + 1, Append(open, events[i].comp))
    ELSE IF open # <<>> /\ open[Len(open)] = events[i].comp
    THEN OpenAfter(events, i + 1, Pop(open))
    ELSE <<"unpaired">>

\* the components whose renderComponent is in progress, outermost first
InProgress(c) ==
    LET comps == {i \in 1..Len(call[c].stack) : call[c].stack[i].f = "comp"}
        F[i \in 0..Len(call[c].stack)] ==
            IF i = 0 THEN <<>>
            ELSE IF i \in comps THEN Append(F[i - 1], call[c].stack[i].elem.n)
            ELSE F[i - 1]
    IN F[Len(call[c].stack)]

\* C16: instrumentation events pair like try/finally: an end event ends the
\* component begun last and not yet ended, so none comes without its begin;
\* the components begun and not ended are exactly those whose resolution is
\* in progress, so the begin precedes every step of a resolution and each
\* return, successful or failed at whichever step, has emitted its one end;
\* a call that is over has left no begin without its end
EventsPaired ==
    \A c \in DOMAIN call :
        /\ OpenAfter(call[c].events, 1, <<>>) = InProgress(c)
        /\ Done(c) => OpenAfter(call[c].events, 1, <<>>) = <<>>

ChildFailureEndsBothComponents ==
    /\ Done(1) /\ call[1].res = "err" /\ call[1].file = <<"childfail", 0>>
    /\ call[1].err = "render component"
    /\ [i \in 1..Len(call[1].events) |->
           <<call[1].events[i].comp, call[1].events[i].stage>>]
         = << <<"P", "begin">>, <<"E", "begin">>, <<"E", "end">>, <<"P", "end">> >>

\* C17: an end event carries no error exactly when the resolution of its
\* component succeeded, and the failure when it failed: as many end events
\* without error as resolutions that returned output, and every error an end
\* event carries is the failure the call returns.  (A resolution that ends in
\* the run-time panic of splitComponentBody has not succeeded, and its
\* deferred end event carries no error.)
EndEventCarriesOutcome ==
    \A c \in DOMAIN call :
        /\ Completed(c) = call[c].resolved
        /\ \A i \in 1..Len(call[c].events) :
               (call[c].events[i].stage = "end" /\ call[c].events[i].err # "") =>
                   /\ call[c].res = "err"
                   /\ call[c].events[i].err = call[c].err

\* the end events of a call that carry an error
FailedEnds(c) ==
    {i \in 1..Len(call[c].events) :
        call[c].events[i].stage = "end" /\ call[c].events[i].err # ""}

\* C18: a failed component resolution aborts the whole call at once: after
\* the first end event that carries an error no begin event follows, the
\* call is failed with that very error from then on, no final pass, pipeline
\* step or post-processor runs, and a buffered call writes nothing
FailureAbortsRender ==
    \A c \in DOMAIN call :
        FailedEnds(c) # {} =>
            LET first == CHOOSE i \in FailedEnds(c) : \A j \in FailedEnds(c) : i <= j
            IN /\ \A j \in first..Len(call[c].events) : call[c].events[j].stage = "end"
               /\ call[c].res = "err"
               /\ call[c].err = call[c].events[first].err
               /\ call[c].pc \in {"run", "done"}
               /\ call[c].ran = <<>> /\ ~call[c].final
               /\ ~call[c].expanded
               /\ ~call[c].stream => call[c].sink = <<>>

FailedBeforeLaterComponent ==
    /\ Done(1) /\ call[1].file = <<"failfirst", 0>>
    /\ ~call[1].stream /\ ~call[1].wnil
    /\ Cfg(1).finalTemplatePass /\ Cfg(1).pagePipelines # <<>>
    /\ Cfg(1).postProcessors # <<>>
    /\ call[1].res = "err" /\ call[1].err = "render component"
    /\ call[1].events = << [comp |-> "E", stage |-> "begin", err |-> ""],
                           [comp |-> "E", stage |-> "end", err |-> "render component"] >>
    /\ call[1].ran = <<>> /\ call[1].sink = <<>>

\* the WithAttrRules option in force for a component: the last one given for
\* its name, compared without regard to case; 0 when there is none
RuleFor(cfg, component) ==
    LET given == {i \in 1..Len(cfg.attrRules) :
                     /\ cfg.attrRules[i].component # ""
                     /\ ToLower(cfg.attrRules[i].component) = ToLower(component)}
    IN IF given = {} THEN 0 ELSE CHOOSE i \in given : \A j \in given : j <= i

\* the attribute names, lower-cased, that the options of one kind list
Listed(cfg, component, kind) ==
    LET opts == cfg.attrRules[RuleFor(cfg, component)].opts
    IN UNION {{ToLower(n) : n \in opts[j].names \ {""}} :
                 j \in {k \in 1..Len(opts) : opts[k].opt = kind}}

AllowsOthers(cfg, component) ==
    LET opts == cfg.attrRules[RuleFor(cfg, component)].opts
    IN \E k \in 1..Len(opts) : opts[k].opt = "others"

\* the attribute names present at a usage site, lower-cased
Present(attrs) == {ToLower(attrs[k].n) : k \in 1..Len(attrs)}

MissingErrors(names) == {"missing required attr " \o q : q \in names}

UnsupportedErrors(names) == {"unsupported attr " \o q : q \in names}

AttrNames == {"msg", "id", "extra", "a", "b"}

OnlyAllowedAttrsAccepted ==
    \A c \in DOMAIN call : \A i \in 1..Len(call[c].log) :
        LET rec == call[c].log[i]
        IN (/\ RuleFor(Cfg(c), rec.comp) # 0
            /\ Listed(Cfg(c), rec.comp, "require") \subseteq Present(rec.attrs)) =>
               LET others == Present(rec.attrs) \
                                 (Listed(Cfg(c), rec.comp, "allow") \cup
                                  Listed(Cfg(c), rec.comp, "require"))
               IN IF AllowsOthers(Cfg(c), rec.comp) \/ others = {}
                  THEN rec.op = "validate" => rec.err = ""
                  ELSE /\ rec.op = "validate"
                       /\ rec.err \in UnsupportedErrors(others)
                       /\ call[c].res = "err" /\ call[c].err = rec.err
                       /\ i = Len(call[c].log)

UnsupportedAttrNamed ==
    /\ Done(1) /\ call[1].file = <<"attrmore", 0>>
    /\ Listed(Cfg(1), "L", "require") = {"msg"} /\ Listed(Cfg(1), "L", "allow") = {}
    /\ ~AllowsOthers(Cfg(1), "L")
    /\ call[1].res = "err" /\ call[1].err = "unsupported attr extra"
    /\ Len(call[1].log) = 1 /\ call[1].resolved = 0

\* the augmenters registered under a key ("*" for the wildcard, given as "*"
\* or as the empty name), in registration order
Registered(cfg, key) ==
    LET options == cfg.augmenterOptions
        Key(component) == IF component \in {"", "*"} THEN "*" ELSE ToLower(component)
        F[i \in 0..Len(options)] ==
            IF i = 0 THEN <<>>
            ELSE IF Key(options[i].component) = key /\ options[i].augmenter # ""
            THEN Append(F[i - 1], options[i].augmenter)
            ELSE F[i - 1]
    IN F[Len(options)]

\* the augmenters due for a component: wildcard ones, then its own
Due(cfg, component) == Registered(cfg, "*") \o Registered(cfg, ToLower(component))

FirstFailing(augs) ==
    CHOOSE i \in 1..Len(augs) :
        /\ augs[i] \in FailingAugmenters
        /\ \A j \in 1..(i - 1) : augs[j] \notin FailingAugmenters

\* C21: the augmenters of a component are invoked on its payload before its
\* template executes, the wildcard ones first and then its own, each group in
\* registration order; when one fails no later one is invoked, the template
\* is not executed and the call fails with that failure
AugmentersRunInOrder ==
    \A c \in DOMAIN call : \A i \in 1..Len(call[c].log) :
        LET rec == call[c].log[i]
            due == Due(Cfg(c), rec.comp)
        IN /\ rec.op = "augment" =>
                  IF \E k \in 1..Len(due) : due[k] \in FailingAugmenters
                  THEN /\ rec.aug = SubSeq(due, 1, FirstFailing(due))
                       /\ rec.err = "augmenter " \o due[FirstFailing(due)] \o " failed"
                       /\ call[c].res = "err" /\ call[c].err = rec.err
                       /\ i = Len(call[c].log)
                  ELSE rec.aug = due /\ rec.err = ""
           /\ rec.op = "execute" =>
                  /\ i > 1
                  /\ call[c].log[i - 1].op = "augment"
                  /\ call[c].log[i - 1].comp = rec.comp
                  /\ call[c].log[i - 1].err = ""
                  /\ rec.aug = due

AugmenterFailureStopsTheRest ==
    /\ Done(1) /\ call[1].file = <<"leaf", 0>>
    /\ call[1].res = "err" /\ call[1].err = "augmenter nfail failed"
    /\ Due(Cfg(1), "L") = <<"w1", "n1", "nfail", "n2">>
    /\ call[1].log[Len(call[1].log)].op = "augment"
    /\ call[1].log[Len(call[1].log)].aug = <<"w1", "n1", "nfail">>
    /\ call[1].resolved = 0

\* the call has been through applyPostProcessing
PostProcessed(c) ==
    /\ call[c].pc \in {"write", "done"}
    /\ call[c].expanded /\ ~call[c].stream

\* the names of the stages of a trace, in the order of their invocation
StageNames(t) == [k \in 1..Len(t) |-> t[k].stage]

\* the stages the engine of the call was given: the final pass when it is
\* performed, the steps of the pipelines as registered, the post-processors
RegisteredStages(c) ==
    (IF call[c].final THEN <<"final">> ELSE <<>>)
        \o Flatten(Cfg(c).pagePipelines) \o Cfg(c).postProcessors

\* C22: the stages of the render pipeline run in a fixed order, the final
\* template pass first (when performed), then every pipeline in registration
\* order with its steps in order, then every post-processor in registration
\* order; the first stage receives the expanded document and every later one
\* exactly the bytes returned by the stage before it, the last one's bytes
\* being the output
StagesRunInFixedOrder ==
    \A c \in DOMAIN call :
        PostProcessed(c) =>
            LET t == call[c].trace
            IN /\ IsPrefix(StageNames(t), RegisteredStages(c))
               /\ call[c].err = "" => StageNames(t) = RegisteredStages(c)
               /\ t # <<>> => t[1].in = call[c].rendered
               /\ \A k \in 1..(Len(t) - 1) : t[k + 1].in = t[k].out
               /\ call[c].err = "" =>
                     call[c].cur = IF t = <<>> THEN call[c].rendered ELSE t[Len(t)].out

\* a render with final pass, two pipelines and two post-processors has run
\* all six stages and written the bytes of the last
AllStagesRanInOrder ==
    /\ Done(1) /\ call[1].res = "ok" /\ ~call[1].wnil
    /\ call[1].file[1] = "tmpl"
    /\ Cfg(1).pagePipelines = << <<"a", "b">>, <<"c">> >>
    /\ StageNames(call[1].trace) = <<"final", "a", "b", "c", "d", "e">>
    /\ call[1].trace[1].out # call[1].trace[1].in
    /\ call[1].sink = <<call[1].trace[6].out>>

\* C23: a pipeline step or post-processor that returns a failure aborts the
\* render with that failure, and no later stage is invoked; a stage that
\* returns nil bytes without a failure is taken to have returned empty bytes,
\* and the stages after it still run
StageFailureAbortsNilContinues ==
    \A c \in DOMAIN call :
        PostProcessed(c) =>
            LET t == call[c].trace
                Fails(s) == s \in {"fail", "fail2"}
            IN /\ \A k \in 1..Len(t) :
                     /\ Fails(t[k].stage) =>
                           /\ k = Len(t)
                           /\ call[c].pc = "done" /\ call[c].res = "err"
                           /\ call[c].err = t[k].err /\ t[k].err # ""
                           /\ call[c].err =
                                 ApplyStage(t[k].stage, t[k].in).err
                           /\ call[c].sink = <<>>
                     /\ t[k].stage = "nil" =>
                           /\ t[k].err = "" /\ t[k].out = <<>>
                           /\ k < Len(t) => t[k + 1].in = <<>>
                           /\ k < Len(RegisteredStages(c)) => k < Len(t)
               /\ (\A k \in 1..Len(RegisteredStages(c)) :
                      RegisteredStages(c)[k] \in {"a", "b", "c", "d", "e", "nil"})
                     => Len(t) = Len(RegisteredStages(c))

\* a pipeline step returned nil and the step after it received empty bytes;
\* then the second post-processor failed: the render failed with its error and
\* the failing post-processor behind it was not invoked
StageFailedBeforeLaterStage ==
    /\ Done(1) /\ call[1].res = "err" /\ call[1].err = "second stage failed"
    /\ Cfg(1).postProcessors = <<"c", "fail2", "fail">>
    /\ StageNames(call[1].trace) = <<"a", "nil", "b", "c", "fail2">>
    /\ call[1].ran = <<"a", "nil", "b", "c", "fail2">>
    /\ call[1].trace[2].in # <<>> /\ call[1].trace[3].in = <<>>
    /\ call[1].trace[3].out = <<Txt("b")>>

\* the value prepareRenderState hands to dataWithContext in call c
Injected(c) == AugmentedData(Cfg(c), call[c].ctx, call[c].supplied).val

\* the value handed to dataWithContext is the caller's own object
CallersOwn(c) == AugmentedData(Cfg(c), call[c].ctx, call[c].supplied).own

\* a non-nil mapping with string keys, by value or behind a pointer
StringKeyed(d) == d.t \in {"map", "strmap"} /\ ~d.null

SameFailure(a, b) ==
    \/ a = b
    \/ {a, b} \subseteq MissingErrors(AttrNames)
    \/ {a, b} \subseteq UnsupportedErrors(AttrNames)

\* two sequences of records that agree in length and, entry by entry, in every
\* field but err, where they hold the same failure
SameRecords(s, t, fields) ==
    /\ Len(s) = Len(t)
    /\ \A i \in 1..Len(s) :
          /\ \A f \in fields : s[i][f] = t[i][f]
          /\ SameFailure(s[i].err, t[i].err)

\* C25: with a nil sink the render still runs to its end, with the same
\* component resolution, instrumentation events, attribute validation,
\* augmenters, pipeline steps and post-processors, and returns the same
\* success or failure as the render with a sink, but nothing is written;
\* this holds with and without streaming writes enabled
NilSinkSameOutcome ==
    /\ call[2].sink = <<>>
    /\ ~call[2].stream
    /\ (Done(1) /\ Done(2)) =>
          /\ call[2].res = call[1].res /\ SameFailure(call[2].err, call[1].err)
          /\ SameRecords(call[2].events, call[1].events, {"comp", "stage"})
          /\ SameRecords(call[2].log, call[1].log, {"op", "comp", "attrs", "aug"})
          /\ call[2].resolved = call[1].resolved
          /\ call[2].executed = call[1].executed
          /\ call[2].trace = call[1].trace
          /\ call[2].loads = call[1].loads
          /\ eng[2].entries = eng[1].entries /\ eng[2].sources = eng[1].sources
          /\ call[1].res = "ok" =>
                /\ call[1].sink # <<>>
                /\ ~call[1].stream => call[2].cur = call[1].sink[1]
                /\ call[1].stream => call[2].cur = Flatten(call[1].sink)

\* with streaming writes enabled a page with components was streamed into
\* the sink by call 1 and rendered to its end without a write by call 2
NilSinkRenderedWithoutWriting ==
    /\ Done(1) /\ Done(2)
    /\ Cfg(1).streamingWrites /\ call[1].stream
    /\ call[1].res = "ok" /\ call[2].res = "ok"
    /\ call[2].wnil /\ call[2].sink = <<>>
    /\ call[2].resolved > 1
    /\ Len(call[1].sink) > 1

\* C26: a root document without bytes is a hard failure: the call that reads
\* it returns "file is empty" at once, writes nothing, resolves no component,
\* emits no event, runs no stage, and leaves the compiled-template cache and
\* the source cache as they were
EmptyDocumentFails ==
    [][\A c \in DOMAIN call :
          (/\ call'[c] # call[c]
           /\ call'[c].file # call[c].file \/ call[c].pc \in {"idle", "done"}
           /\ readFile(call'[c].file).err = ""
           /\ readFile(call'[c].file).raw = <<>>) =>
              /\ call'[c].pc = "done" /\ call'[c].res = "err"
              /\ call'[c].err = "file is empty"
              /\ call'[c].sink = <<>>
              /\ call'[c].resolved = 0 /\ call'[c].loads = 0
              /\ call'[c].events = <<>> /\ call'[c].trace = <<>>
              /\ eng'[call[c].e].entries = eng[call[c].e].entries
              /\ eng'[call[c].e].sources = eng[call[c].e].sources
              /\ eng'[call[c].e].stored = eng[call[c].e].stored
              /\ eng'[call[c].e].reads = eng[call[c].e].reads]_vars

\* the second render of an engine was given the empty document after the
\* first had filled both caches: it failed and the caches are still filled
EmptyDocumentAfterFilledCaches ==
    /\ Done(1) /\ call[1].file[1] = "empty"
    /\ call[1].res = "err" /\ call[1].err = "file is empty"
    /\ call[1].sink = <<>>
    /\ eng[1].renders = 2
    /\ DOMAIN eng[1].entries # {} /\ DOMAIN eng[1].sources # {}

\* the final template pass was the first stage of the call
FinalPassRan(c) == call[c].trace # <<>> /\ call[c].trace[1].stage = "final"

\* C27: ParseFileTemplate always performs the final template pass, also on an
\* engine without the option, and never streams; ParseFileContext performs
\* it exactly when the option is set; the pass runs once, on the document
\* with its components expanded, before every pipeline step and
\* post-processor, and nothing is written before it
FinalPassByEntryPoint ==
    \A c \in DOMAIN call :
        /\ call[c].entry = "ParseFileTemplate" => ~call[c].stream
        /\ (call[c].pc \in {"run", "post"} /\ ~call[c].stream) => call[c].sink = <<>>
        /\ PostProcessed(c) =>
              /\ call[c].entry = "ParseFileTemplate" => FinalPassRan(c)
              /\ call[c].entry = "ParseFileContext" =>
                    (FinalPassRan(c) <=> Cfg(c).finalTemplatePass)
              /\ \A k \in 2..Len(call[c].trace) : call[c].trace[k].stage # "final"
              /\ FinalPassRan(c) =>
                    LET first == call[c].trace[1]
                        Same(fin) == first.out = fin.out /\ first.err = fin.err
                    IN /\ first.in = call[c].rendered
                       /\ Same(executeFinalTemplate(call[c].funcs, call[c].rendered))
                       /\ call[c].resolved = Cardinality(
                              {i \in 1..Len(call[c].events) : call[c].events[i].stage = "end"})

\* ParseFileTemplate on an engine without the option: the component was
\* expanded, then the final pass evaluated the action of the document, then
\* the pipeline steps and post-processors ran, then the bytes were written
FinalPassWithoutOption ==
    /\ Done(1) /\ call[1].res = "ok" /\ ~call[1].wnil
    /\ call[1].entry = "ParseFileTemplate" /\ ~Cfg(1).finalTemplatePass
    /\ Cfg(1).streamingWrites
    /\ call[1].file[1] = "tmplcomp" /\ call[1].resolved = 1
    /\ StageNames(call[1].trace) = <<"final", "a", "b", "c", "d", "e">>
    /\ call[1].trace[1].in = <<Txt("{{v}}"), Txt("l"), Txt("y")>>
    /\ call[1].trace[1].out = <<Txt("v"), Txt("l"), Txt("y")>>
    /\ call[1].sink = <<call[1].trace[6].out>>

\* the component occurrences of call c: one begin event each
Occurrences(c) ==
    Cardinality({i \in 1..Len(call[c].events) : call[c].events[i].stage = "begin"})

\* the statement of C28 as written: the key is what the key function returns
\* when that is not empty, else the lower-cased name, behind the extractor's
\* locale (the fallback when that is empty) and a colon
KeyAsConfigured ==
    \A e \in DOMAIN eng : \A r \in eng[e].keyed :
        LET fn     == CacheKeyFunc([locale |-> r.locale], r.name)
            base   == IF eng[e].cfg.cacheKeyFunc /\ fn # "" THEN fn ELSE ToLower(r.name)
            locale == IF r.locale = "" THEN eng[e].cfg.localeFallback ELSE r.locale
        IN r.key = IF eng[e].cfg.localeExtractor /\ locale # ""
                   THEN locale \o ":" \o base ELSE base

\* C28: the cache key of a component is the key function's result with the
\* white space around it removed when a key function is configured and that
\* is not empty, else the lower-cased name; with a locale extractor the
\* resolved locale (the extractor's value trimmed, the fallback when that is
\* empty, lower-cased) and a colon are put in front unless the resolved
\* locale is empty; compiled templates are stored under exactly these keys;
\* the key function is called once for every component occurrence, less the
\* one rejected by the pass limit
CacheKeyAsNormalised ==
    /\ \A e \in DOMAIN eng :
          /\ \A r \in eng[e].keyed :
                LET fn     == TrimSpace(CacheKeyFunc([locale |-> r.locale], r.name))
                    base   == IF eng[e].cfg.cacheKeyFunc /\ fn # "" THEN fn
                              ELSE ToLower(r.name)
                    locale == ResolvedLocale(eng[e].cfg, r.locale)
                IN /\ r.key = IF eng[e].cfg.localeExtractor /\ locale # ""
                              THEN locale \o ":" \o base ELSE base
                   /\ ~eng[e].cfg.funcMapProvider => r.key \in DOMAIN eng[e].entries
          /\ DOMAIN eng[e].entries \subseteq {r.key : r \in eng[e].keyed}
    /\ \A c \in DOMAIN call :
          /\ ~Cfg(c).cacheKeyFunc => call[c].keyCalls = 0
          /\ (Cfg(c).cacheKeyFunc /\ Done(c)) =>
                call[c].keyCalls =
                    Occurrences(c) - (IF call[c].rejectedAt # 0 THEN 1 ELSE 0)

\* a page with two occurrences of one component under the locale " fr", on an
\* engine with key function, locale extractor and fallback: the key function
\* was called twice and its trimmed result stands behind the locale
KeyFunctionCalledPerOccurrence ==
    /\ Done(1) /\ call[1].res = "ok" /\ call[1].file[1] = "case"
    /\ Cfg(1).cacheKeyFunc /\ Cfg(1).localeExtractor /\ ~Cfg(1).funcMapProvider
    /\ call[1].ctx.locale = " fr"
    /\ Occurrences(1) = 2 /\ call[1].keyCalls = 2
    /\ "fr:fr:ab" \in DOMAIN eng[1].entries
    /\ \E r \in eng[1].keyed : r.locale = "EN" /\ r.key = "en:EN:ab"

\* the statement of C29 as written: a blank expression gives the empty string
\* without the templating engine; an evaluated text of exactly true or false
\* gives the boolean; every other evaluated text stays as it is
AttrCoercedWhenExactlyBoolean ==
    \A c \in DOMAIN call : \A i \in 1..Len(call[c].attrLog) :
        LET e == call[c].attrLog[i]
            Kept(x) ==
                IF x.text \in {"true", "false"} THEN e.value = BoolValue(x.text = "true")
                ELSE e.value = StringValue(x.text)
        IN /\ TrimSpace(e.raw) = "" => (e.value = StringValue("") /\ ~e.engine)
           /\ (e.engine /\ e.err = "") => Kept(ExecuteAttr(call[c].funcs, e.raw))

\* C29: a blank expression gives the empty string without the templating
\* engine; any other expression is evaluated by it, and an evaluated text
\* that is true or false once the white space around it is removed gives the
\* boolean, one that is blank gives the empty string, and every other text
\* stays a string equal to the evaluated text
AttrCoercedAfterTrimming ==
    \A c \in DOMAIN call : \A i \in 1..Len(call[c].attrLog) :
        LET e == call[c].attrLog[i]
            Kept(x) ==
                IF TrimSpace(x.text) \in {"true", "false"}
                THEN e.value = BoolValue(TrimSpace(x.text) = "true")
                ELSE IF TrimSpace(x.text) = "" THEN e.value = StringValue("")
                ELSE e.value = StringValue(x.text)
        IN /\ TrimSpace(e.raw) = "" => (e.value = StringValue("") /\ ~e.engine /\ e.err = "")
           /\ TrimSpace(e.raw) # "" => e.engine
           /\ (e.engine /\ e.err = "") => Kept(ExecuteAttr(call[c].funcs, e.raw))

\* the expression " true" became the boolean true, the attribute after it the
\* same, and the component was executed
PaddedTrueBecameBoolean ==
    /\ Done(1) /\ call[1].res = "ok"
    /\ call[1].file = <<"attrval", 6>>
    /\ Len(call[1].attrLog) = 2
    /\ call[1].attrLog[1].raw = " true" /\ call[1].attrLog[1].engine
    /\ call[1].attrLog[1].value = BoolValue(TRUE)
    /\ call[1].attrLog[2].value = BoolValue(TRUE)

\* C30: a document that has no component left after at most
\* maxComponentPasses passes that replaced something is returned, so the
\* expansion ends with the pass-limit error only while the buffer still holds
\* a component to replace
PassLimitOnlyWhenTagsRemain ==
    \A c \in DOMAIN call :
        (Done(c) /\ call[c].entry = "ParseFile" /\ call[c].err = "exceeded passes")
            => /\ call[c].passes = maxComponentPasses
               /\ ~ZeroCustomTags(call[c].cur)

\* start tags less end tags among the first j raw tokens of raw; a void
\* element has no end tag of its own
TagDepth(raw, j) ==
    Cardinality({i \in 1..j : raw[i].k = "open" /\ raw[i].n \notin HTMLAutoClose})
        - Cardinality({i \in 1..j : raw[i].k = "close"})

\* raw is one occurrence of the component: its self-closing tag, or its open
\* tag through the close tag that brings the depth back to zero
IsOccurrence(raw, name) ==
    /\ Len(raw) > 0
    /\ raw[1].n = name
    /\ \/ raw[1].k = "self" /\ Len(raw) = 1
       \/ /\ raw[1].k = "open" /\ raw[Len(raw)].k = "close"
          /\ TagDepth(raw, Len(raw)) = 0
          /\ \A j \in 1..(Len(raw) - 1) : TagDepth(raw, j) > 0

\* the first component start tag of input is an open tag whose depth never
\* returns to zero
FirstComponentUnclosed(input) ==
    \E i \in 1..Len(input) :
        /\ input[i].k = "open" /\ isComponentName(input[i].n)
        /\ ZeroCustomTags(SubSeq(input, 1, i - 1))
        /\ \A j \in i..Len(input) : TagDepth(SubSeq(input, i, Len(input)), j - i + 1) > 0

\* C31: every span the scan selects lies behind the cursor and within the
\* buffer, is one whole occurrence of its component (open tag through
\* matching close, or the self-closing tag), and leaves no component start
\* tag in the literal bytes before it; a document whose first component is
\* never closed fails with the unclosed-component-tag error
SpansAreOutermostOccurrences ==
    \A c \in DOMAIN call :
        /\ \A i \in 1..Len(call[c].stack) :
             LET fr == call[c].stack[i]
             IN (fr.f = "stream" /\ fr.pc \in {"component", "expanding"}) =>
                    /\ fr.cursor <= fr.start /\ fr.start < fr.end
                    /\ fr.end <= Len(fr.input)
                    /\ IsOccurrence(Slice(fr.input, fr.start, fr.end),
                                    fr.input[fr.start + 1].n)
                    /\ isComponentName(fr.input[fr.start + 1].n)
                    /\ ZeroCustomTags(Slice(fr.input, fr.cursor, fr.start))
        /\ (Done(c) /\ call[c].prepared /\ call[c].err # "streaming requires a writer"
                /\ FirstComponentUnclosed(Document(c)))
               => (call[c].res = "err" /\ call[c].err = "unclosed component tag")

\* C32: an element that is not self-closing and has its matching close tag
\* gives exactly the bytes between the '>' ending its open tag and the start
\* of that close tag; an element whose open tag ends with '/>' gives the
\* self-closing flag and no child bytes; a missing closing bracket or a
\* missing matching close tag fails
SplitGivesBytesBetweenTags ==
    \A c \in DOMAIN call :
        call[c].pc = "done" =>
            LET i == call[c].input
                got == [children |-> call[c].children,
                        selfClosing |-> call[c].selfClosing,
                        failed |-> call[c].err # ""]
            IN IF ~i.open.bracket
               THEN got.failed
               ELSE IF i.open.selfClosing
               THEN got = [children |-> <<>>, selfClosing |-> TRUE, failed |-> FALSE]
               ELSE IF ~i.close.matching
               THEN got.failed
               ELSE got = [children |-> i.kids, selfClosing |-> FALSE, failed |-> FALSE]

\* begin events less end events among events i..j
Balance(events, i, j) ==
    Cardinality({k \in i..j : events[k].stage = "begin"})
        - Cardinality({k \in i..j : events[k].stage = "end"})

\* the component start tags of a buffer
ComponentTags(input) ==
    {i \in 1..Len(input) : input[i].k \in {"open", "self"} /\ isComponentName(input[i].n)}

\* the frames of a call whose template is about to be executed
AboutToExecute(c) ==
    {i \in 1..Len(call[c].stack) :
        call[c].res = "" /\ call[c].stack[i].f = "comp" /\ call[c].stack[i].pc = "exec"}

\* C33: when a component template is about to run, Children holds no
\* component tag, ChildrenRaw is the inner bytes of the element as written
\* (nothing for a self-closing tag), and every component started since this
\* component's begin event has ended without error, at least one for each
\* component tag of ChildrenRaw
ChildrenExpandedBeforeParent ==
    \A c \in DOMAIN call : \A i \in AboutToExecute(c) :
        LET fr == call[c].stack[i]
            ev == call[c].events
            pl == Payload(fr, call[c].ctx, call[c].root)
        IN /\ ZeroCustomTags(pl.Children)
           /\ pl.ChildrenRaw = (IF fr.raw[1].k = "self" THEN <<>>
                                ELSE SubSeq(fr.raw, 2, Len(fr.raw) - 1))
           /\ \E j \in 1..Len(ev) :
                 /\ ev[j] = [comp |-> fr.elem.n, stage |-> "begin", err |-> ""]
                 /\ Balance(ev, j + 1, Len(ev)) = 0
                 /\ \A k \in (j + 1)..Len(ev) :
                        /\ Balance(ev, j + 1, k) >= 0
                        /\ ev[k].err = ""
                 /\ Cardinality({k \in (j + 1)..Len(ev) : ev[k].stage = "end"})
                        >= Cardinality(ComponentTags(pl.ChildrenRaw))

FailsPolicy(cfg, component, attrs) ==
    /\ RuleFor(cfg, component) # 0
    /\ \/ Listed(cfg, component, "require") \ Present(attrs) # {}
       \/ /\ ~AllowsOthers(cfg, component)
          /\ Present(attrs) \ (Listed(cfg, component, "allow")
                                 \cup Listed(cfg, component, "require")) # {}

\* C35: the policy check of an occurrence is decided by the attributes written
\* at the usage site alone, whatever the augmenters of the component would
\* put into the payload; when it fails the call fails with it and neither an
\* augmenter nor the template of that occurrence runs; augmenters are invoked
\* only on an occurrence that has passed the check
ValidationBeforeAugmenters ==
    \A c \in DOMAIN call : \A i \in 1..Len(call[c].log) :
        LET rec == call[c].log[i]
        IN /\ rec.op = "validate" =>
                 /\ (rec.err # "") <=> FailsPolicy(Cfg(c), rec.comp, rec.attrs)
                 /\ rec.err # "" =>
                        /\ i = Len(call[c].log)
                        /\ call[c].res = "err" /\ call[c].err = rec.err
           /\ rec.op \in {"augment", "execute"} =>
                 \E j \in 1..(i - 1) :
                     /\ call[c].log[j].op = "validate" /\ call[c].log[j].err = ""
                     /\ call[c].log[j].comp = rec.comp /\ call[c].log[j].attrs = rec.attrs
                     /\ \A k \in (j + 1)..(i - 1) :
                            call[c].log[k].op \in {"augment", "execute"}
                                /\ call[c].log[k].comp = rec.comp

\* L requires msg, the usage site gives only Extra, and the augmenter w1,
\* which would set msg, is registered for every component: the check failed
\* and no augmenter was invoked
InjectedPropDoesNotSatisfyRequired ==
    /\ Done(1) /\ call[1].file = <<"attrless", 0>>
    /\ Listed(Cfg(1), "L", "require") = {"msg"}
    /\ "msg" \in AugmenterProps(Due(Cfg(1), "L"))
    /\ call[1].res = "err" /\ call[1].err = "missing required attr msg"
    /\ Len(call[1].log) = 1 /\ call[1].log[1].op = "validate"
    /\ call[1].resolved = 0

\* the renderComponent frames of call c above its frame j
CompsAbove(c, j) ==
    Cardinality({i \in (j + 1)..Len(call[c].stack) : call[c].stack[i].f = "comp"})

\* the events after position p are bracketed among themselves: none of them
\* ends a component begun at or before p, and open of them are begin events
\* not yet ended
NestedAfter(ev, p, open) ==
    /\ \A k \in (p + 1)..Len(ev) : Balance(ev, p + 1, k) >= 0
    /\ Balance(ev, p + 1, Len(ev)) = open

\* events b..e are one bracket: the begin at b is ended by the end at e
Bracket(ev, b, e) ==
    /\ b < e
    /\ ev[b].stage = "begin" /\ ev[e].stage = "end" /\ ev[b].comp = ev[e].comp
    /\ Balance(ev, b, e) = 0
    /\ \A k \in b..(e - 1) : Balance(ev, b, k) > 0

\* C36: the instrumentation events of a render are well bracketed.  No end
\* event comes but for the component begun last.  While the child content of
\* a component is scanned, every event since the component's begin event is
\* of that content: the component has not ended, and the brackets of the
\* content's components lie one after the other or within one another
\* behind its begin.  While the output of a component's template is scanned,
\* the component's bracket is closed: its end event has fired, and every
\* event of the components of its output lies behind that end event
EventsWellBracketed ==
    \A c \in DOMAIN call :
        LET ev == call[c].events
            st == call[c].stack
        IN /\ OpenAfter(ev, 1, <<>>) # <<"unpaired">>
           /\ \A j \in 2..Len(st) :
                  st[j].f = "stream" =>
                      IF st[j - 1].f = "comp"
                      THEN /\ st[j - 1].pc = "children"
                           /\ st[j].input = st[j - 1].children
                           /\ \E b \in 1..Len(ev) :
                                  /\ ev[b] = [comp |-> st[j - 1].elem.n,
                                              stage |-> "begin", err |-> ""]
                                  /\ NestedAfter(ev, b, CompsAbove(c, j))
                      ELSE /\ st[j - 1].pc = "expanding"
                           /\ \E b \in 1..Len(ev), e \in 1..Len(ev) :
                                  /\ ev[e] = [comp |-> st[j - 1].elem.n,
                                              stage |-> "end", err |-> ""]
                                  /\ Bracket(ev, b, e)
                                  /\ NestedAfter(ev, e, CompsAbove(c, j))

\* <W>x<L/></W>: L, of the child content of W, begins and ends between the
\* begin and the end of W; P, of the output of W's template, begins after
\* the end of W
ChildInsideOutputAfter ==
    /\ Done(1) /\ call[1].res = "ok" /\ call[1].file = <<"wrap", 0>>
    /\ [i \in 1..Len(call[1].events) |->
           <<call[1].events[i].comp, call[1].events[i].stage>>]
         = << <<"W", "begin">>, <<"L", "begin">>, <<"L", "end">>, <<"W", "end">>,
              <<"P", "begin">>, <<"P", "end">> >>

\* call c holds the cache lock, shared or exclusively
HoldsLock(c) == c \in eng[call[c].e].mu.readers \/ eng[call[c].e].mu.writer = c

\* positions at which a call is about to call RLock or Lock
LockPcs == {"entriesRLock", "sourcesRLock", "sourcesLock", "entriesLock"}

\* positions between a lock and its unlock: the map access and what follows
\* it up to the unlock
HeldPcs ==
    {"entriesRead", "entriesHit", "entriesMiss", "sourcesRead", "sourcesHit",
     "sourcesMiss", "sourcesWrite", "sourcesUnlock", "entriesWrite", "entriesUnlock"}

\* a call holds the lock exactly between an acquisition and the release that
\* follows it, where it only accesses a map: not while it calls the cache key
\* function (load), reads a component file (file), compiles (parse), resolves
\* attributes, runs augmenters and the template (attrs, exec), emits events
\* or scans, and not when it is about to acquire the lock or is over
LockDiscipline ==
    \A c \in DOMAIN call :
        /\ HoldsLock(c) <=> At(c, HeldPcs)
        /\ At(c, LockPcs \cup {"load", "file", "parse", "split", "children",
                               "attrs", "exec"}) => ~HoldsLock(c)
        /\ (call[c].pc # "run" \/ call[c].res # "") => ~HoldsLock(c)

\* C37: cache locking cannot deadlock: the lock is held only around a map
\* access (never during a file read, a compilation or a callback, never when
\* a call acquires it), and whatever the other calls do, a call that asks
\* for the lock gets it and a call that holds the lock releases it
CacheLockingCannotDeadlock ==
    /\ []LockDiscipline
    /\ \A c \in 1..2 : At(c, LockPcs) ~> HoldsLock(c)
    /\ \A c \in 1..2 : HoldsLock(c) ~> ~HoldsLock(c)

\* call 1 is blocked in Lock, about to store a source, while call 2 holds
\* the lock shared for its own lookup
WriterWaitsForReader ==
    /\ At(1, {"sourcesLock"}) /\ ~CanLock(eng[1].mu)
    /\ eng[1].mu.readers = {2} /\ At(2, {"sourcesRead", "sourcesMiss"})

(***************************************************************************)
(* Specification of component names in several spellings: one engine, a    *)
(* first render and a later one; the component folder holds Cd.html and    *)
(* cd.html, Ef.html but no ef.html                                         *)
(***************************************************************************)
SpellFileIds ==
    {<<n, 0>> : n \in {"exact", "upper", "spell", "absent", "present", "compfail",
                       "notfound"}}

InitSpelling ==
    \E cfg \in ConcCfgs :
        /\ eng = <<NewHC(cfg)>>
        /\ call = <<IdleCall(1), IdleCall(1)>>

NextSpelling ==
    \/ \E file \in SpellFileIds :
           /\ call[1].pc = "idle" /\ call[2].pc = "idle"
           /\ StartRender(1, "ParseFileContext", file, FALSE, Background)
    \/ \E file \in SpellFileIds :
           /\ call[1].pc = "done" /\ call[2].pc = "idle"
           /\ StartRender(2, "ParseFileContext", file, FALSE, Background)
    \/ \E c \in 1..2 : ScanStep(c)
    \/ \E c \in 1..2 : CompLoad(c)
    \/ \E c \in 1..2 : CompSplit(c)
    \/ \E c \in 1..2 : CompAttrs(c)
    \/ \E c \in 1..2 : CompExec(c)
    \/ \E c \in 1..2 : Propagate(c)
    \/ \E c \in 1..2 : ApplyPost(c)
    \/ \E c \in 1..2 : WriteOut(c)

SpecSpelling == InitSpelling /\ [][NextSpelling]_vars

\* the errors of loadComponentTemplate
LoadFailures == {"parse component", "not found"}

\* the component whose resolution failed in call c
FailedComponent(c) ==
    call[c].events[CHOOSE i \in FailedEnds(c) : \A j \in FailedEnds(c) : i <= j].comp

\* the caches after the component at which call c failed did not load: no
\* template was ever stored under its key; the source of a component that
\* does not compile is in the source cache, that of a component not found is
\* not
CachesAfterFailedLoad(c) ==
    LET g == eng[call[c].e]
        n == FailedComponent(c)
    IN /\ <<"entries", cacheKey(g.cfg, call[c].ctx, n)>> \notin g.stored
       /\ cacheKey(g.cfg, call[c].ctx, n) \notin DOMAIN g.entries
       /\ call[c].err = "parse component" =>
              /\ sourceCacheKey(n) \in DOMAIN g.sources
              /\ g.sources[sourceCacheKey(n)].content = readComponentFile(n).content
       /\ call[c].err = "not found" => sourceCacheKey(n) \notin DOMAIN g.sources

\* the later call has resolved the component at which the first call failed
RenderedAgain(n) ==
    {i \in 1..Len(call[2].events) :
        call[2].events[i].comp = n /\ call[2].events[i].stage = "end"}

\* C38: a failed load leaves the caches as the claim says (no template under
\* the component's key; the source cached when the template does not
\* compile, nothing cached when the component is not found), and a later
\* render of the component at which a render failed fails at it again with
\* the same error
FailedLoadRepeats ==
    /\ \A c \in DOMAIN call :
           (Done(c) /\ call[c].err \in LoadFailures /\ FailedEnds(c) # {}
                /\ (c = 2 \/ call[2].pc = "idle")) => CachesAfterFailedLoad(c)
    /\ (Done(1) /\ call[1].err \in LoadFailures /\ FailedEnds(1) # {}) =>
           \A i \in RenderedAgain(FailedComponent(1)) :
               call[2].events[i].err = call[1].err

\* C39: the template a component is rendered with is compiled from the
\* content readComponentFile selects for the name as written in the tag
SourceResolvedForExactName ==
    \A c \in DOMAIN call : \A i \in 1..Len(call[c].stack) :
        (call[c].stack[i].f = "comp"
            /\ call[c].stack[i].pc \in {"split", "children", "attrs", "exec"}) =>
            call[c].stack[i].tpl.body
                = readComponentFile(call[c].stack[i].elem.n).content.body

=============================================================================
